---------------------------- MODULE Spec2Model ----------------------------
(***************************************************************************)
(* win-secrets: a read-only FUSE filesystem (SopsFS) that serves the       *)
(* values of a SOPS-encrypted YAML file, decrypting on demand and caching  *)
(* the plaintext for secretCacheTTL.                                       *)
(*                                                                         *)
(* The model follows src/main.go (SopsFS) and src/unnamed/part_004 (the    *)
(* SopsClient that decrypts in-process through the key services).          *)
(*                                                                         *)
(* Time is counted in minutes: every event of a behaviour happens at a     *)
(* whole minute.  Strings are TLA+ strings, taken apart with Len, SubSeq   *)
(* and \o exactly as the Go code takes them apart with the strings package.*)
(***************************************************************************)
EXTENDS Integers, Sequences, FiniteSets, TLC

(***************************************************************************)
(* Bounds of the model.                                                    *)
(***************************************************************************)
\* the clock stops at MaxTime (minutes since NewSopsFS returned)
MaxTime == 15
\* the clock is read every ClockStep minutes
ClockStep == 5
\* number of Read calls the filesystem host issues in one behaviour
MaxReads == 3
\* number of segments of the paths the single-threaded host passes
MaxSegments == 3

\* the host's worker threads that run the callbacks concurrently
Workers == {"w1", "w2"}
\* the sweep goroutine started by NewSopsFS
Sweeper == "sweep"
\* paths the host passes to Read
ReadPaths == {"/secrets/a", "/secrets/a.yaml", "/secrets/zz", "/other"}
\* paths the host passes to Read when it runs its callbacks on one thread
MountedReadPaths ==
    {"/secrets/a", "/secrets/a.yaml", "/secrets/zz", "/secrets/a/zz", "/other"}
\* offsets and buffer capacities the host passes to Read
Offsets == {0}
BufSizes == {4096}
\* offsets and buffer capacities the single-threaded host passes to Read
HostOffsets == {0, 1, 2, 3}
HostBufSizes == {1, 4096}
\* the contents the secrets file has had (it may be edited while mounted); a
\* DecryptKey call reads the one that is on disk when it runs
Versions == {1, 2}

\* the segments those paths are made of, and whether they begin with "/"
Segments ==
    {"secrets", "a.yaml", "db", "pw", "sops", "x.txt.yaml", "x.yaml.txt"}
Leads == {"", "/"}

None == "<none>"

(***************************************************************************)
(* Program constants (src/main.go:29-32), in minutes.                      *)
(***************************************************************************)
secretCacheTTL == 5
cacheCleanupPeriod == 10

(***************************************************************************)
(* The strings package.                                                    *)
(***************************************************************************)
HasPrefix(s, prefix) ==
    /\ Len(s) >= Len(prefix)
    /\ SubSeq(s, 1, Len(prefix)) = prefix

HasSuffix(s, suffix) ==
    /\ Len(s) >= Len(suffix)
    /\ SubSeq(s, Len(s) - Len(suffix) + 1, Len(s)) = suffix

TrimPrefix(s, prefix) ==
    IF HasPrefix(s, prefix) THEN SubSeq(s, Len(prefix) + 1, Len(s)) ELSE s

TrimSuffix(s, suffix) ==
    IF HasSuffix(s, suffix) THEN SubSeq(s, 1, Len(s) - Len(suffix)) ELSE s

\* index of the first "/" of s at or after position i, 0 when there is none
RECURSIVE IndexFrom(_, _)
IndexFrom(s, i) ==
    IF i > Len(s) THEN 0
    ELSE IF SubSeq(s, i, i) = "/" THEN i
    ELSE IndexFrom(s, i + 1)

\* strings.Split(s, "/"): the substrings between the separators; never empty
RECURSIVE Split(_)
Split(s) ==
    LET i == IndexFrom(s, 1) IN
    IF i = 0 THEN <<s>>
    ELSE <<SubSeq(s, 1, i - 1)>> \o Split(SubSeq(s, i + 1, Len(s)))

(***************************************************************************)
(* parseSopsKeyPath (src/main.go:291-303).  The nil slice is <<>>.         *)
(***************************************************************************)
StripSuffixes(k) == TrimSuffix(TrimSuffix(k, ".yaml"), ".txt")

\* variant: the first segment is not compared with "secrets"
parseSopsKeyPathNoRootCheck(filePath) ==
    LET parts == Split(TrimPrefix(filePath, "/")) IN
    IF Len(parts) < 2
    THEN <<>>
    ELSE LET keys == SubSeq(parts, 2, Len(parts)) IN
         [i \in 1..Len(keys) |-> StripSuffixes(keys[i])]

parseSopsKeyPath(filePath) ==
    LET parts == Split(TrimPrefix(filePath, "/")) IN
    IF Len(parts) < 2 \/ parts[1] # "secrets"
    THEN <<>>
    ELSE LET keys == SubSeq(parts, 2, Len(parts)) IN
         [i \in 1..Len(keys) |-> StripSuffixes(keys[i])]

(***************************************************************************)
(* YAML documents.  A node is a mapping (its keys in the order fmt prints  *)
(* them, sorted) or a scalar.                                              *)
(***************************************************************************)
Scalar(v) == [kind |-> "scalar", val |-> v]
Mapping(kv) == [kind |-> "map", kv |-> kv]

IsMap(node) == node.kind = "map"
Keys(m) == {m.kv[i][1] : i \in 1..Len(m.kv)}
HasKey(m, k) == k \in Keys(m)
Child(m, k) == m.kv[CHOOSE i \in 1..Len(m.kv) : m.kv[i][1] = k][2]

\* the secrets file on disk in its successive versions: the encrypted file
\* carries the same keys as its plaintext, and the "sops" metadata mapping
PlainFile(ver) ==
    Mapping(<< <<"a", Scalar(IF ver = 1 THEN "s1" ELSE "s2")>>,
               <<"db", Mapping(<< <<"pw", Scalar("p4ss")>> >>)>> >>)

EncryptedFile(ver) ==
    Mapping(<< <<"a", Scalar("ENC[a]")>>,
               <<"db", Mapping(<< <<"pw", Scalar("ENC[pw]")>> >>)>>,
               <<"sops", Mapping(<< <<"version", Scalar("3.8.1")>> >>)>> >>)

(***************************************************************************)
(* SopsClient (src/unnamed/part_004).                                      *)
(***************************************************************************)
\* delete(sopsFile, "sops")
RECURSIVE DeleteKey(_, _)
DeleteKey(kv, k) ==
    IF kv = <<>> THEN <<>>
    ELSE IF Head(kv)[1] = k THEN DeleteKey(Tail(kv), k)
    ELSE <<Head(kv)>> \o DeleteKey(Tail(kv), k)

\* variant: the "sops" key is left in the structure
GetSecretsStructureKeepsSops(ver) == EncryptedFile(ver)

\* part_004:113-129: the file is read and parsed, and the key "sops" deleted
GetSecretsStructure(ver) == Mapping(DeleteKey(EncryptedFile(ver).kv, "sops"))

\* fmt.Sprintf("%v", v) of a decoded YAML value
RECURSIVE Sprintf(_)
Sprintf(node) ==
    IF ~IsMap(node) THEN node.val
    ELSE LET RECURSIVE Pairs(_)
             Pairs(kv) ==
                 IF kv = <<>> THEN ""
                 ELSE Head(kv)[1] \o ":" \o Sprintf(Head(kv)[2])
                      \o (IF Len(kv) > 1 THEN " " ELSE "") \o Pairs(Tail(kv))
         IN "map[" \o Pairs(node.kv) \o "]"

\* fmt's %q of a string and %v of a []string
Quoted(k) == "\"" \o k \o "\""

RECURSIVE Spaced(_)
Spaced(keys) ==
    IF keys = <<>> THEN ""
    ELSE IF Len(keys) = 1 THEN Head(keys)
    ELSE Head(keys) \o " " \o Spaced(Tail(keys))

SprintKeys(keys) == "[" \o Spaced(keys) \o "]"

\* variant: the error of a walk that meets a leaf names the value it met
RECURSIVE ExtractFromReportsValue(_, _, _)
ExtractFromReportsValue(cur, rest, keyPath) ==
    IF rest = <<>> THEN [secret |-> Sprintf(cur), err |-> None]
    ELSE IF ~IsMap(cur)
    THEN [secret |-> "", err |-> "path error at " \o Quoted(Sprintf(cur))]
    ELSE IF ~HasKey(cur, Head(rest))
    THEN [secret |-> "", err |-> "key not found: " \o SprintKeys(keyPath)]
    ELSE ExtractFromReportsValue(Child(cur, Head(rest)), Tail(rest), keyPath)

\* part_004:172-190: the walk of DecryptKey over the decrypted document, from
\* cur along the keys rest of keyPath that are left
RECURSIVE ExtractFrom(_, _, _)
ExtractFrom(cur, rest, keyPath) ==
    IF rest = <<>> THEN [secret |-> Sprintf(cur), err |-> None]
    ELSE IF ~IsMap(cur)
    THEN [secret |-> "", err |-> "path error at " \o Quoted(Head(rest))]
    ELSE IF ~HasKey(cur, Head(rest))
    THEN [secret |-> "", err |-> "key not found: " \o SprintKeys(keyPath)]
    ELSE ExtractFrom(Child(cur, Head(rest)), Tail(rest), keyPath)

\* the walk of DecryptKey over the decrypted document, step 3
ExtractKey(cur, keyPath) == ExtractFrom(cur, keyPath, keyPath)

\* what the key services can answer to one call: the tree is decrypted, or
\* they refuse, lack the key or cannot be reached
ExternalOutcomes == {"ok", "sops decrypt failed"}

\* DecryptKey(ctx, filePath, keyPath): ctx is not consulted
DecryptKey(ver, keyPath, outcome) ==
    IF outcome # "ok" THEN [secret |-> "", err |-> outcome]
    ELSE ExtractKey(PlainFile(ver), keyPath)

(***************************************************************************)
(* State.                                                                  *)
(***************************************************************************)
VARIABLES
    now,           \* the wall clock, minutes since NewSopsFS returned
    tickC,         \* ticker.C of cacheCleanupLoop holds a tick (capacity 1)
    secretsTree,   \* fs.secretsTree
    secretsCache,  \* fs.secretsCache: path -> [value, timestamp]
    mu,            \* fs.mu, the sync.RWMutex
    reads,         \* per worker thread: the Read call it runs
    sweepPc,       \* where cacheCleanupLoop stands
    readsLeft,     \* Read calls the host has still to issue
    lastPut,       \* history: per path, the value and the time of its last put
    mainPc,        \* where main stands: in host.Mount, or returned from it
    fsCall         \* the last callback a single-threaded host ran, with its result

vars == <<now, tickC, secretsTree, secretsCache, mu, reads, sweepPc,
          readsLeft, lastPut, mainPc, fsCall>>

\* a worker that runs no call
Idle == [pc |-> "idle", path |-> None, secret |-> "",
         ctx |-> None, calls |-> 0, hit |-> FALSE, err |-> None,
         ret |-> 0, data |-> ""]

\* no callback is running on the single-threaded host
NoCall == [op |-> None, lead |-> "", segs |-> <<>>, path |-> None, ret |-> 0,
           mode |-> None, size |-> 0, filled |-> {}, keyPath |-> <<>>,
           calls |-> 0, data |-> "", node |-> None, exists |-> FALSE,
           ofst |-> 0, cap |-> 0, full |-> FALSE]

Init ==
    /\ now = 0
    /\ tickC = FALSE
    /\ secretsTree = GetSecretsStructure(1)
    /\ secretsCache = <<>>
    /\ mu = [w |-> None, granted |-> FALSE, readers |-> {}, rwait |-> {}]
    /\ reads = [t \in Workers |-> Idle]
    /\ sweepPc = "ticker"
    /\ readsLeft = MaxReads
    /\ lastPut = <<>>
    /\ mainPc = "Mount"
    /\ fsCall = NoCall

(***************************************************************************)
(* sync.RWMutex.  Lock first takes the writers' mutex and announces the    *)
(* writer (w), then waits until the readers that hold shared access have   *)
(* left; an RLock that arrives while a writer is announced waits for that  *)
(* writer's Unlock, which hands shared access to all waiting readers.      *)
(***************************************************************************)
\* RLock by t returns at once
RLockFree(m) == m.w = None

RLockEnter(m, t) ==
    IF RLockFree(m) THEN [m EXCEPT !.readers = @ \cup {t}]
    ELSE [m EXCEPT !.rwait = @ \cup {t}]

\* variant: the RUnlock calls of readSecret are missing
RUnlockForgotten(m, t) == m

RUnlock(m, t) == [m EXCEPT !.readers = @ \ {t}]

\* Lock by t can announce itself
LockFree(m) == m.w = None

\* variant: a plain mutex taken by the writers only, which readers do not hold up
LockGrantableAlways(m) == TRUE

\* the announced writer gets exclusive access
LockGrantable(m) == m.readers = {}

LockAnnounce(m, t) == [m EXCEPT !.w = t, !.granted = LockGrantable(m)]

LockGrant(m) == [m EXCEPT !.granted = TRUE]

\* variant: the Unlock calls are missing
UnlockForgotten(m) == m

Unlock(m) == [m EXCEPT !.w = None, !.granted = FALSE,
                       !.readers = m.rwait, !.rwait = {}]

\* the readers that Unlock releases enter their critical section
Released(m, rs) ==
    [t \in Workers |-> IF t \in m.rwait THEN [rs[t] EXCEPT !.pc = "lookup"] ELSE rs[t]]

(***************************************************************************)
(* The cache table.                                                        *)
(***************************************************************************)
Cached(cache, path) == path \in DOMAIN cache

\* variant: an entry of age exactly TTL is still served
CacheHitInclusive(cache, path, t) ==
    /\ Cached(cache, path)
    /\ t - cache[path].timestamp <= secretCacheTTL

\* variant: the age of the entry is not looked at
CacheHitNoExpiry(cache, path, t) == Cached(cache, path)

\* main.go:316-317, the test readSecret makes under shared access
CacheHit(cache, path, t) ==
    /\ Cached(cache, path)
    /\ t - cache[path].timestamp < secretCacheTTL

\* variant: an entry that is present keeps its value and has its timestamp renewed
CachePutKeepsValue(cache, path, secret, t) ==
    [p \in DOMAIN cache \cup {path} |->
        IF p = path
        THEN [value |-> IF Cached(cache, path) THEN cache[path].value ELSE secret,
              timestamp |-> t]
        ELSE cache[p]]

\* variant: the entry is keyed by the derived key path, not by the path
CachePutByKeyPath(cache, path, secret, t) ==
    LET keyPath == parseSopsKeyPath(path)
        RECURSIVE Join(_)
        Join(ks) == IF ks = <<>> THEN "" ELSE "/" \o Head(ks) \o Join(Tail(ks))
        key == "/secrets" \o Join(keyPath)
    IN [p \in DOMAIN cache \cup {key} |->
           IF p = key THEN [value |-> secret, timestamp |-> t] ELSE cache[p]]

\* main.go:335-338
CachePut(cache, path, secret, t) ==
    [p \in DOMAIN cache \cup {path} |->
        IF p = path THEN [value |-> secret, timestamp |-> t] ELSE cache[p]]

\* variant: the pass also removes an entry whose age is exactly TTL
ExpiredInclusive(entry, t) == t - entry.timestamp >= secretCacheTTL

\* variant: the pass deletes nothing
SweepPassKeepsAll(cache, t) == cache

\* main.go:66-71, one pass of the sweep
Expired(entry, t) == t - entry.timestamp > secretCacheTTL

SweepPassResult(cache, t) ==
    [p \in {q \in DOMAIN cache : ~Expired(cache[q], t)} |-> cache[p]]

(***************************************************************************)
(* Read (src/main.go:176-197) and readSecret (src/main.go:305-343).        *)
(***************************************************************************)
\* main.go:189-196: the bytes Read copies into buff, and their number
\* variant: the copy starts at the first byte whatever the offset
ReadCopyFromStart(secret, ofst, size) ==
    IF ofst >= Len(secret) THEN [ret |-> 0, data |-> ""]
    ELSE LET n == IF size < Len(secret) THEN size ELSE Len(secret) IN
         [ret |-> n, data |-> SubSeq(secret, 1, n)]

ReadCopy(secret, ofst, size) ==
    IF ofst >= Len(secret) THEN [ret |-> 0, data |-> ""]
    ELSE LET rest == Len(secret) - ofst
             n == IF size < rest THEN size ELSE rest
         IN [ret |-> n, data |-> SubSeq(secret, ofst + 1, ofst + n)]

\* Read returns what readSecret gave it; buff and ofst are not looked at before
\* main.go:189, where the model draws them
Finish(r, secret, ofst, size) ==
    LET c == ReadCopy(secret, ofst, size) IN
    [r EXCEPT !.pc = "done", !.secret = secret, !.ret = c.ret, !.data = c.data]

Fail(r, code, err) == [r EXCEPT !.pc = "done", !.ret = code, !.err = err]

\* the calls of the pure functions on the paths Read is given, each computed once
UnderSecrets == [path \in ReadPaths \cup MountedReadPaths |-> HasPrefix(path, "/secrets/")]
KeyPathOf == [path \in ReadPaths \cup MountedReadPaths |-> parseSopsKeyPath(path)]
Decrypted ==
    [ver \in Versions, path \in ReadPaths \cup MountedReadPaths,
     outcome \in ExternalOutcomes |->
        DecryptKey(ver, KeyPathOf[path], outcome)]

\* the host calls Read(path, buff, ofst, fh) on worker t; readSecret runs up to
\* its RLock (main.go:177-315)
ReadCall(t, path) ==
    /\ reads[t].pc = "idle"
    /\ readsLeft > 0
    /\ readsLeft' = readsLeft - 1
    /\ LET r == [Idle EXCEPT !.path = path] IN
       IF ~UnderSecrets[path]
       THEN /\ reads' = [reads EXCEPT ![t] = Fail(r, -2, None)]
            /\ mu' = mu
       ELSE IF KeyPathOf[path] = <<>>
       THEN /\ reads' = [reads EXCEPT ![t] = Fail(r, -5, "not found")]
            /\ mu' = mu
       ELSE /\ reads' = [reads EXCEPT ![t] =
                    [r EXCEPT !.pc = IF RLockFree(mu) THEN "lookup" ELSE "RLock"]]
            /\ mu' = RLockEnter(mu, t)
    /\ UNCHANGED <<mainPc, fsCall, now, tickC, secretsTree, secretsCache,
                   sweepPc, lastPut>>

\* variant: a lookup that finds an entry past its time to live removes it
LookupEvictsExpired(t, ofst, size) ==
    /\ reads[t].pc = "lookup"
    /\ mu' = RUnlock(mu, t)
    /\ LET r == reads[t] IN
       IF CacheHit(secretsCache, r.path, now)
       THEN /\ reads' = [reads EXCEPT ![t] =
                    Finish([r EXCEPT !.hit = TRUE], secretsCache[r.path].value,
                           ofst, size)]
            /\ secretsCache' = secretsCache
       ELSE /\ reads' = [reads EXCEPT ![t] =
                    [r EXCEPT !.pc = "DecryptKey", !.ctx = "live",
                              !.calls = @ + 1]]
            /\ secretsCache' = [p \in DOMAIN secretsCache \ {r.path} |->
                                    secretsCache[p]]
    /\ UNCHANGED <<mainPc, fsCall, now, tickC, secretsTree, lastPut,
                   sweepPc, readsLeft>>

\* variant: the RUnlock on the hit path (main.go:318) is missing
LookupHitKeepsRLock(t, ofst, size) ==
    /\ reads[t].pc = "lookup"
    /\ LET r == reads[t] IN
       IF CacheHit(secretsCache, r.path, now)
       THEN /\ reads' = [reads EXCEPT ![t] =
                    Finish([r EXCEPT !.hit = TRUE], secretsCache[r.path].value,
                           ofst, size)]
            /\ mu' = mu
       ELSE /\ reads' = [reads EXCEPT ![t] =
                    [r EXCEPT !.pc = "DecryptKey", !.ctx = "live",
                              !.calls = @ + 1]]
            /\ mu' = RUnlock(mu, t)
    /\ UNCHANGED <<mainPc, fsCall, now, tickC, secretsTree, secretsCache,
                   sweepPc, readsLeft, lastPut>>

\* main.go:316-329: the lookup under shared access; a hit returns the cached
\* value, a miss releases the mutex and calls DecryptKey under a fresh context
Lookup(t, ofst, size) ==
    /\ reads[t].pc = "lookup"
    /\ mu' = RUnlock(mu, t)
    /\ LET r == reads[t] IN
       IF CacheHit(secretsCache, r.path, now)
       THEN /\ reads' = [reads EXCEPT ![t] =
                    Finish([r EXCEPT !.hit = TRUE], secretsCache[r.path].value,
                           ofst, size)]
            /\ lastPut' = lastPut
       ELSE /\ reads' = [reads EXCEPT ![t] =
                    [r EXCEPT !.pc = "DecryptKey", !.ctx = "live",
                              !.calls = @ + 1]]
            /\ lastPut' = lastPut
    /\ UNCHANGED <<mainPc, fsCall, now, tickC, secretsTree, secretsCache,
                   sweepPc, readsLeft>>

\* variant: a failed DecryptKey call is made a second time
DecryptReturnRetry(t, ver, outcome) ==
    /\ reads[t].pc = "DecryptKey"
    /\ LET r == reads[t]
           res == Decrypted[ver, r.path, outcome]
       IN reads' = [reads EXCEPT ![t] =
              IF res.err # None
              THEN IF r.calls < 2 THEN [r EXCEPT !.calls = @ + 1]
                   ELSE Fail(r, -5, res.err)
              ELSE [r EXCEPT !.pc = "Lock", !.secret = res.secret, !.ctx = None]]
    /\ UNCHANGED <<mainPc, fsCall, now, tickC, secretsTree, secretsCache, mu,
                   sweepPc, readsLeft, lastPut>>

\* variant: the result is stored before the error is looked at
DecryptReturnCachesError(t, ver, outcome) ==
    /\ reads[t].pc = "DecryptKey"
    /\ LET r == reads[t]
           res == Decrypted[ver, r.path, outcome]
       IN /\ reads' = [reads EXCEPT ![t] =
                 IF res.err # None THEN Fail(r, -5, res.err)
                 ELSE [r EXCEPT !.pc = "Lock", !.secret = res.secret, !.ctx = None]]
          /\ secretsCache' = IF res.err # None
                             THEN CachePut(secretsCache, r.path, res.secret, now)
                             ELSE secretsCache
    /\ UNCHANGED <<mainPc, fsCall, now, tickC, secretsTree, mu, sweepPc,
                   readsLeft, lastPut>>

\* main.go:329-332: DecryptKey returns, having read version ver of the file; on
\* an error readSecret returns it and Read returns EIO
DecryptReturn(t, ver, outcome) ==
    /\ reads[t].pc = "DecryptKey"
    /\ LET r == reads[t]
           res == Decrypted[ver, r.path, outcome]
       IN reads' = [reads EXCEPT ![t] =
              IF res.err # None THEN Fail(r, -5, res.err)
              ELSE [r EXCEPT !.pc = "Lock", !.secret = res.secret, !.ctx = None]]
    /\ UNCHANGED <<mainPc, fsCall, now, tickC, secretsTree, secretsCache, mu,
                   sweepPc, readsLeft, lastPut>>

\* main.go:334: fs.mu.Lock() announces the writer
PutLock(t) ==
    /\ reads[t].pc = "Lock"
    /\ LockFree(mu)
    /\ mu' = LockAnnounce(mu, t)
    /\ reads' = [reads EXCEPT ![t].pc = IF mu'.granted THEN "put" ELSE "LockWait"]
    /\ UNCHANGED <<mainPc, fsCall, now, tickC, secretsTree, secretsCache,
                   sweepPc, readsLeft, lastPut>>

\* main.go:334: fs.mu.Lock() returns once the readers have left
PutLockGranted(t) ==
    /\ reads[t].pc = "LockWait"
    /\ LockGrantable(mu)
    /\ mu' = LockGrant(mu)
    /\ reads' = [reads EXCEPT ![t].pc = "put"]
    /\ UNCHANGED <<mainPc, fsCall, now, tickC, secretsTree, secretsCache,
                   sweepPc, readsLeft, lastPut>>

\* variant: a fresh entry that another Read has put meanwhile is kept and
\* returned in place of the secret this Read has decrypted
PutFirstWins(t, ofst, size) ==
    /\ reads[t].pc = "put"
    /\ LET r == reads[t]
           kept == CacheHit(secretsCache, r.path, now)
           secret == IF kept THEN secretsCache[r.path].value ELSE r.secret
       IN /\ secretsCache' = CachePut(secretsCache, r.path, secret, now)
          /\ reads' = [Released(mu, reads) EXCEPT ![t] = Finish(r, secret, ofst, size)]
          /\ lastPut' = [p \in DOMAIN lastPut \cup {r.path} |->
                             IF p = r.path THEN [value |-> secret, at |-> now]
                             ELSE lastPut[p]]
    /\ mu' = Unlock(mu)
    /\ UNCHANGED <<mainPc, fsCall, now, tickC, secretsTree, sweepPc,
                   readsLeft>>

\* main.go:335-342 and 189-196: the put under exclusive access, the Unlock,
\* and the return of the decrypted secret
Put(t, ofst, size) ==
    /\ reads[t].pc = "put"
    /\ LET r == reads[t] IN
       /\ secretsCache' = CachePut(secretsCache, r.path, r.secret, now)
       /\ reads' = [Released(mu, reads) EXCEPT ![t] = Finish(r, r.secret, ofst, size)]
       /\ lastPut' = [p \in DOMAIN lastPut \cup {r.path} |->
                          IF p = r.path THEN [value |-> r.secret, at |-> now]
                          ELSE lastPut[p]]
    /\ mu' = Unlock(mu)
    /\ UNCHANGED <<mainPc, fsCall, now, tickC, secretsTree, sweepPc,
                   readsLeft>>

\* the host takes the result; the worker is free for the next call
ReadReturn(t) ==
    /\ reads[t].pc = "done"
    /\ reads' = [reads EXCEPT ![t] = Idle]
    /\ UNCHANGED <<mainPc, fsCall, now, tickC, secretsTree, secretsCache, mu,
                   sweepPc, readsLeft, lastPut>>

(***************************************************************************)
(* cacheCleanupLoop (src/main.go:59-74).                                   *)
(***************************************************************************)
\* main.go:63: the loop receives a tick
SweepTick ==
    /\ sweepPc = "ticker"
    /\ tickC
    /\ tickC' = FALSE
    /\ sweepPc' = "Lock"
    /\ UNCHANGED <<mainPc, fsCall, now, secretsTree, secretsCache, mu, reads,
                   readsLeft, lastPut>>

\* main.go:64: fs.mu.Lock() announces the writer
SweepLock ==
    /\ sweepPc = "Lock"
    /\ LockFree(mu)
    /\ mu' = LockAnnounce(mu, Sweeper)
    /\ sweepPc' = IF mu'.granted THEN "pass" ELSE "LockWait"
    /\ UNCHANGED <<mainPc, fsCall, now, tickC, secretsTree, secretsCache,
                   reads, readsLeft, lastPut>>

\* main.go:64: fs.mu.Lock() returns once the readers have left
SweepLockGranted ==
    /\ sweepPc = "LockWait"
    /\ LockGrantable(mu)
    /\ mu' = LockGrant(mu)
    /\ sweepPc' = "pass"
    /\ UNCHANGED <<mainPc, fsCall, now, tickC, secretsTree, secretsCache,
                   reads, readsLeft, lastPut>>

\* main.go:65-72: the removal pass and the Unlock
SweepPass ==
    /\ sweepPc = "pass"
    /\ secretsCache' = SweepPassResult(secretsCache, now)
    /\ mu' = Unlock(mu)
    /\ reads' = Released(mu, reads)
    /\ sweepPc' = "ticker"
    /\ UNCHANGED <<mainPc, fsCall, now, tickC, secretsTree, readsLeft,
                   lastPut>>

(***************************************************************************)
(* The environment.                                                        *)
(***************************************************************************)
\* a context whose 10 s deadline (main.go:326) lies behind it is done
CtxAfter(c) == IF c = "live" THEN "expired" ELSE c

\* time passes: the ticker fires every cacheCleanupPeriod and drops the tick
\* when the loop has not taken the previous one
Tick ==
    /\ now + ClockStep <= MaxTime
    /\ now' = now + ClockStep
    /\ tickC' = (tickC \/ now' \div cacheCleanupPeriod > now \div cacheCleanupPeriod)
    /\ reads' = [t \in Workers |-> [reads[t] EXCEPT !.ctx = CtxAfter(@)]]
    /\ UNCHANGED <<mainPc, fsCall, secretsTree, secretsCache, mu, sweepPc,
                   readsLeft, lastPut>>

Next ==
    \/ \E t \in Workers, path \in ReadPaths : ReadCall(t, path)
    \/ \E t \in Workers, ofst \in Offsets, size \in BufSizes : Lookup(t, ofst, size)
    \/ \E t \in Workers, ver \in Versions, outcome \in ExternalOutcomes :
           DecryptReturn(t, ver, outcome)
    \/ \E t \in Workers : PutLock(t)
    \/ \E t \in Workers : PutLockGranted(t)
    \/ \E t \in Workers, ofst \in Offsets, size \in BufSizes : Put(t, ofst, size)
    \/ \E t \in Workers : ReadReturn(t)
    \/ SweepTick
    \/ SweepLock
    \/ SweepLockGranted
    \/ SweepPass
    \/ Tick

Spec == Init /\ [][Next]_vars

(***************************************************************************)
(* The same filesystem under a host that dispatches its callbacks on one   *)
(* thread (the host's single-threaded mode), with fair scheduling: a       *)
(* goroutine that can take a step takes one (the Go scheduler is           *)
(* preemptive and sync.RWMutex hands the lock to a waiting writer), and    *)
(* the wall clock moves on.  The host is free to issue no further Read.    *)
(***************************************************************************)
Solo == "w1"

\* a step of the Read that worker t runs, and a step of cacheCleanupLoop
\* the one host thread has left its read section (RUnlock, main.go:316)
\* before it calls Lock, and the sweep goroutine takes no read lock: Lock
\* never finds a reader inside, so the wait of PutLockGranted does not occur
ReadStep(t) ==
    \/ \E ofst \in Offsets, size \in BufSizes : Lookup(t, ofst, size)
    \/ \E ver \in Versions, outcome \in ExternalOutcomes :
           DecryptReturn(t, ver, outcome)
    \/ PutLock(t)
    \/ \E ofst \in Offsets, size \in BufSizes : Put(t, ofst, size)
    \/ ReadReturn(t)

SweepStep == SweepTick \/ SweepLock \/ SweepLockGranted \/ SweepPass

SoloNext ==
    \/ \E path \in ReadPaths : ReadCall(Solo, path)
    \/ ReadStep(Solo)
    \/ SweepStep
    \/ Tick

Fairness ==
    /\ WF_vars(ReadStep(Solo))
    /\ WF_vars(SweepStep)
    /\ WF_vars(Tick)

SoloFairSpec == Init /\ [][SoloNext]_vars /\ Fairness

(***************************************************************************)
(* The life of the process (main, src/main.go:345-387).  NewSopsFS has     *)
(* returned and main stands in host.Mount.  A SIGINT or SIGTERM makes the  *)
(* signal goroutine call host.Unmount, on which Mount returns; main then   *)
(* returns, which ends the process and every goroutine with it.            *)
(***************************************************************************)
\* main.go:371-381: the signal arrives, host.Unmount() is called, Mount returns
Shutdown ==
    /\ mainPc = "Mount"
    /\ mainPc' = "unmounted"
    /\ UNCHANGED <<now, tickC, secretsTree, secretsCache, mu, reads, sweepPc,
                   readsLeft, lastPut, fsCall>>

\* main.go:386-387: main returns; the runtime exits without waiting for the
\* goroutines that are still running
Exit ==
    /\ mainPc = "unmounted"
    /\ mainPc' = "exit"
    /\ UNCHANGED <<now, tickC, secretsTree, secretsCache, mu, reads, sweepPc,
                   readsLeft, lastPut, fsCall>>

\* the process is alive: its goroutines take steps
Alive == mainPc # "exit"

LifeNext ==
    \/ mainPc = "Mount" /\ \E path \in ReadPaths : ReadCall(Solo, path)
    \/ Alive /\ ReadStep(Solo)
    \/ Alive /\ SweepStep
    \/ Alive /\ Tick
    \/ Shutdown
    \/ Exit

LifeFairSpec ==
    /\ Init
    /\ [][LifeNext]_vars
    /\ WF_vars(Alive /\ ReadStep(Solo))
    /\ WF_vars(Alive /\ SweepStep)
    /\ WF_vars(Alive /\ Tick)
    /\ WF_vars(Exit)

(***************************************************************************)
(* The callbacks that only look at the tree (src/main.go:90-169, 199-284). *)
(* stat.Mode is "S_IFDIR|0555" or "S_IFREG|0444", and None while the       *)
(* callback has not written it.                                            *)
(***************************************************************************)
DirMode == "S_IFDIR|0555"
FileMode == "S_IFREG|0444"

\* variant: a leaf met while segments remain is returned as the node found
RECURSIVE navigateToPathFailOpen(_, _)
navigateToPathFailOpen(current, keyPath) ==
    IF keyPath = <<>> THEN [node |-> current, exists |-> TRUE]
    ELSE IF ~IsMap(current) THEN [node |-> current, exists |-> TRUE]
    ELSE IF ~HasKey(current, Head(keyPath)) THEN [node |-> None, exists |-> FALSE]
    ELSE navigateToPathFailOpen(Child(current, Head(keyPath)), Tail(keyPath))

\* main.go:90-106; the walk runs between RLock and RUnlock
RECURSIVE navigateToPath(_, _)
navigateToPath(current, keyPath) ==
    IF keyPath = <<>> THEN [node |-> current, exists |-> TRUE]
    ELSE IF ~IsMap(current) THEN [node |-> None, exists |-> FALSE]
    ELSE IF ~HasKey(current, Head(keyPath)) THEN [node |-> None, exists |-> FALSE]
    ELSE navigateToPath(Child(current, Head(keyPath)), Tail(keyPath))

\* the result of a callback: its return value and what it wrote
Result(ret, mode, size) == [ret |-> ret, mode |-> mode, size |-> size, filled |-> {}]

\* variant: stat.Mode is preset to a regular file before the tree is walked
GetattrStatFirst(tree, path) ==
    IF path = "/" \/ path = "/secrets" THEN Result(0, DirMode, 0)
    ELSE IF ~HasPrefix(path, "/secrets/") THEN Result(-2, FileMode, 0)
    ELSE LET found == navigateToPath(tree, parseSopsKeyPath(path)) IN
         IF ~found.exists THEN Result(-2, FileMode, 0)
         ELSE IF IsMap(found.node) THEN Result(0, DirMode, 0)
         ELSE Result(0, FileMode, 4096)

\* variant: stat.Size of a file is left as the host passed it
GetattrNoSize(tree, path) ==
    IF path = "/" \/ path = "/secrets" THEN Result(0, DirMode, 0)
    ELSE IF ~HasPrefix(path, "/secrets/") THEN Result(-2, None, 0)
    ELSE LET found == navigateToPath(tree, parseSopsKeyPath(path)) IN
         IF ~found.exists THEN Result(-2, None, 0)
         ELSE IF IsMap(found.node) THEN Result(0, DirMode, 0)
         ELSE Result(0, FileMode, 0)

\* main.go:108-145
Getattr(tree, path) ==
    IF path = "/" THEN Result(0, DirMode, 0)
    ELSE IF path = "/secrets" THEN Result(0, DirMode, 0)
    ELSE IF ~HasPrefix(path, "/secrets/") THEN Result(-2, None, 0)
    ELSE LET keyPath == parseSopsKeyPath(path) IN
         IF keyPath = <<>> THEN Result(-2, None, 0)
         ELSE LET found == navigateToPath(tree, keyPath) IN
              IF ~found.exists THEN Result(-2, None, 0)
              ELSE IF IsMap(found.node) THEN Result(0, DirMode, 0)
              ELSE Result(0, FileMode, 4096)

\* variant: the check of the "/secrets/" prefix is missing
OpenNoPrefixCheck(tree, path) ==
    LET keyPath == parseSopsKeyPath(path) IN
    IF keyPath = <<>> THEN Result(-2, None, 0)
    ELSE LET found == navigateToPath(tree, keyPath) IN
         IF ~found.exists THEN Result(-2, None, 0)
         ELSE IF IsMap(found.node) THEN Result(-21, None, 0)
         ELSE Result(0, None, 0)

\* variant: the check that the node is a mapping is missing
OpenAllowsDirectory(tree, path) ==
    IF ~HasPrefix(path, "/secrets/") THEN Result(-2, None, 0)
    ELSE LET found == navigateToPath(tree, parseSopsKeyPath(path)) IN
         IF ~found.exists THEN Result(-2, None, 0)
         ELSE Result(0, None, 0)

\* main.go:147-169
Open(tree, path) ==
    IF ~HasPrefix(path, "/secrets/") THEN Result(-2, None, 0)
    ELSE LET keyPath == parseSopsKeyPath(path) IN
         IF keyPath = <<>> THEN Result(-2, None, 0)
         ELSE LET found == navigateToPath(tree, keyPath) IN
              IF ~found.exists THEN Result(-2, None, 0)
              ELSE IF IsMap(found.node) THEN Result(-21, None, 0)
              ELSE Result(0, None, 0)

\* variant: the two synthetic directories are not special
OpendirNoRoots(tree, path) ==
    IF ~HasPrefix(path, "/secrets/") THEN Result(-2, None, 0)
    ELSE LET found == navigateToPath(tree, parseSopsKeyPath(path)) IN
         IF ~found.exists THEN Result(-2, None, 0)
         ELSE IF ~IsMap(found.node) THEN Result(-20, None, 0)
         ELSE Result(0, None, 0)

\* main.go:258-284
Opendir(tree, path) ==
    IF path = "/" \/ path = "/secrets" THEN Result(0, None, 0)
    ELSE IF ~HasPrefix(path, "/secrets/") THEN Result(-2, None, 0)
    ELSE LET keyPath == parseSopsKeyPath(path) IN
         IF keyPath = <<>> THEN Result(-2, None, 0)
         ELSE LET found == navigateToPath(tree, keyPath) IN
              IF ~found.exists THEN Result(-2, None, 0)
              ELSE IF ~IsMap(found.node) THEN Result(-20, None, 0)
              ELSE Result(0, None, 0)

\* variant: every child is filled as a regular file
FillChildrenAllFiles(m) == {<<k, FileMode>> : k \in Keys(m)}

\* main.go:214-222 and 245-253: the entries filled for the children of m; the
\* order of a range over a Go map is not fixed, so they are kept as a set
FillChildren(m) ==
    {<<k, IF IsMap(Child(m, k)) THEN DirMode ELSE FileMode>> : k \in Keys(m)}

\* main.go:202-203
FillDots == {<<".", None>>, <<"..", None>>}

\* variant: a path that names a leaf is listed as an empty directory
ReaddirListsFile(tree, path) ==
    LET Filled(ret, entries) ==
            [ret |-> ret, mode |-> None, size |-> 0, filled |-> FillDots \cup entries]
    IN IF path = "/" THEN Filled(0, {<<"secrets", DirMode>>})
       ELSE IF path = "/secrets" THEN Filled(0, FillChildren(tree))
       ELSE IF ~HasPrefix(path, "/secrets/") THEN Filled(-2, {})
       ELSE LET found == navigateToPath(tree, parseSopsKeyPath(path)) IN
            IF ~found.exists THEN Filled(-2, {})
            ELSE IF ~IsMap(found.node) THEN Filled(0, {})
            ELSE Filled(0, FillChildren(found.node))

\* main.go:199-256
Readdir(tree, path) ==
    LET Filled(ret, entries) ==
            [ret |-> ret, mode |-> None, size |-> 0, filled |-> FillDots \cup entries]
    IN IF path = "/" THEN Filled(0, {<<"secrets", DirMode>>})
       ELSE IF path = "/secrets" THEN Filled(0, FillChildren(tree))
       ELSE IF ~HasPrefix(path, "/secrets/") THEN Filled(-2, {})
       ELSE LET keyPath == parseSopsKeyPath(path) IN
            IF keyPath = <<>> THEN Filled(-2, {})
            ELSE LET found == navigateToPath(tree, keyPath) IN
                 IF ~found.exists THEN Filled(-2, {})
                 ELSE IF ~IsMap(found.node) THEN Filled(-20, {})
                 ELSE Filled(0, FillChildren(found.node))

(***************************************************************************)
(* The filesystem under a host that runs one callback at a time, each to   *)
(* its end.  The paths it passes are made of at most MaxSegments segments. *)
(***************************************************************************)
RECURSIVE Join(_)
Join(segs) ==
    IF segs = <<>> THEN ""
    ELSE IF Len(segs) = 1 THEN Head(segs)
    ELSE Head(segs) \o "/" \o Join(Tail(segs))

FsInputs ==
    [lead : Leads, segs : UNION {[1..k -> Segments] : k \in 0..MaxSegments}]

PathOf(inp) == inp.lead \o Join(inp.segs)

\* the tree NewSopsFS has loaded; no operation replaces it
LoadedTree == GetSecretsStructure(1)

\* the calls of the pure functions on the paths of the host, each computed
\* once (f @@ <<>> is f, with its values worked out)
FsTable ==
    [inp \in FsInputs |->
        LET path == PathOf(inp)
            keyPath == parseSopsKeyPath(path)
        IN [path |-> path,
            keyPath |-> keyPath,
            under |-> HasPrefix(path, "/secrets/"),
            Getattr |-> Getattr(LoadedTree, path),
            Open |-> Open(LoadedTree, path),
            Opendir |-> Opendir(LoadedTree, path),
            Readdir |-> Readdir(LoadedTree, path),
            navigateToPath |-> navigateToPath(LoadedTree, inp.segs),
            DecryptKey |-> [ver \in Versions, outcome \in ExternalOutcomes |->
                               DecryptKey(ver, keyPath, outcome)]]] @@ <<>>

\* the host has a callback return: op on the path of inp, with result res
Called(op, inp, res) ==
    [NoCall EXCEPT !.op = op, !.lead = inp.lead, !.segs = inp.segs,
                   !.path = FsTable[inp].path, !.ret = res.ret,
                   !.mode = res.mode, !.size = res.size, !.filled = res.filled]

\* the host has no callback running
HostIdle == fsCall.op = None

\* variant: Open of a file decrypts its secret and puts it in the cache table
TreeCallPrefetches(op, inp) ==
    /\ HostIdle
    /\ secretsTree = LoadedTree
    /\ RLockFree(mu)
    /\ fsCall' = Called(op, inp, FsTable[inp][op])
    /\ secretsCache' =
           IF op = "Open" /\ FsTable[inp].Open.ret = 0
           THEN CachePut(secretsCache, FsTable[inp].path,
                         FsTable[inp].DecryptKey[1, "ok"].secret, now)
           ELSE secretsCache
    /\ UNCHANGED <<now, tickC, secretsTree, mu, reads, sweepPc,
                   readsLeft, lastPut, mainPc>>

\* Getattr, Open, Opendir or Readdir runs to its end; it holds the mutex
\* shared during its walk of the tree and leaves it as it found it
TreeCall(op, inp) ==
    /\ HostIdle
    /\ secretsTree = LoadedTree
    /\ RLockFree(mu)
    /\ fsCall' = Called(op, inp, FsTable[inp][op])
    /\ UNCHANGED <<now, tickC, secretsTree, secretsCache, mu, reads, sweepPc,
                   readsLeft, lastPut, mainPc>>

\* the host's fill callback takes as many entries as its buffer has room for
\* and reports the buffer full on every call after that
HostRooms == {0, 1, 4096}

\* variant: Readdir returns at the first fill that reports the buffer full
ReaddirStopsWhenFull(inp, room) ==
    /\ HostIdle
    /\ secretsTree = LoadedTree
    /\ RLockFree(mu)
    /\ LET res == FsTable[inp].Readdir
           children == res.filled \ FillDots
           more == IF room < 2 THEN 0
                   ELSE IF room - 1 < Cardinality(children) THEN room - 1
                   ELSE Cardinality(children)
       IN \E sub \in SUBSET children :
              /\ Cardinality(sub) = more
              /\ LET made == (IF room = 0 THEN {<<".", None>>} ELSE FillDots) \cup sub
                 IN fsCall' = [Called("Readdir", inp, res) EXCEPT
                                  !.filled = made, !.cap = room,
                                  !.full = Cardinality(made) > room]
    /\ UNCHANGED <<now, tickC, secretsTree, secretsCache, mu, reads, sweepPc,
                   readsLeft, lastPut, mainPc>>

\* Readdir runs to its end (main.go:199-256) with a fill callback that has
\* room for `room` entries: every name is passed to fill, whose answer is
\* dropped; cap and full are the host's side of the call
ReaddirAtOnce(inp, room) ==
    /\ HostIdle
    /\ secretsTree = LoadedTree
    /\ RLockFree(mu)
    /\ LET res == FsTable[inp].Readdir IN
       fsCall' = [Called("Readdir", inp, res) EXCEPT
                     !.cap = room, !.full = Cardinality(res.filled) > room]
    /\ UNCHANGED <<now, tickC, secretsTree, secretsCache, mu, reads, sweepPc,
                   readsLeft, lastPut, mainPc>>

\* variant: Read resolves the path as Open does before it reads the secret
ReadAtOnceChecksTree(inp, ver, outcome, ofst, size) ==
    /\ HostIdle
    /\ RLockFree(mu)
    /\ LET e == FsTable[inp]
           call == [NoCall EXCEPT !.op = "Read", !.lead = inp.lead,
                                  !.segs = inp.segs, !.path = e.path]
           Copied(c, calls) ==
               [call EXCEPT !.ret = c.ret, !.data = c.data, !.calls = calls,
                            !.ofst = ofst, !.cap = size]
       IN IF e.Open.ret # 0
          THEN /\ fsCall' = [call EXCEPT !.ret = e.Open.ret]
               /\ UNCHANGED <<secretsCache, lastPut>>
          ELSE IF CacheHit(secretsCache, e.path, now)
          THEN /\ LET c == ReadCopy(secretsCache[e.path].value, ofst, size) IN
                  fsCall' = Copied(c, 0)
               /\ UNCHANGED <<secretsCache, lastPut>>
          ELSE LET res == e.DecryptKey[ver, outcome] IN
               IF res.err # None
               THEN /\ fsCall' = [call EXCEPT !.ret = -5, !.calls = 1]
                    /\ UNCHANGED <<secretsCache, lastPut>>
               ELSE /\ LET c == ReadCopy(res.secret, ofst, size) IN
                       fsCall' = Copied(c, 1)
                    /\ secretsCache' = CachePut(secretsCache, e.path, res.secret, now)
                    /\ lastPut' = [p \in DOMAIN lastPut \cup {e.path} |->
                                      IF p = e.path
                                      THEN [value |-> res.secret, at |-> now]
                                      ELSE lastPut[p]]
    /\ UNCHANGED <<now, tickC, secretsTree, mu, reads, sweepPc, readsLeft, mainPc>>

\* Read runs to its end (main.go:176-197 with readSecret, main.go:305-343)
ReadAtOnce(inp, ver, outcome, ofst, size) ==
    /\ HostIdle
    /\ RLockFree(mu)
    /\ LET e == FsTable[inp]
           call == [NoCall EXCEPT !.op = "Read", !.lead = inp.lead,
                                  !.segs = inp.segs, !.path = e.path]
           \* main.go:189-196: the first use of ofst and buff
           Copied(c, calls) ==
               [call EXCEPT !.ret = c.ret, !.data = c.data, !.calls = calls,
                            !.ofst = ofst, !.cap = size]
       IN IF ~e.under
          THEN /\ fsCall' = [call EXCEPT !.ret = -2]
               /\ UNCHANGED <<secretsCache, lastPut>>
          ELSE IF e.keyPath = <<>>
          THEN /\ fsCall' = [call EXCEPT !.ret = -5]
               /\ UNCHANGED <<secretsCache, lastPut>>
          ELSE IF CacheHit(secretsCache, e.path, now)
          THEN /\ LET c == ReadCopy(secretsCache[e.path].value, ofst, size) IN
                  fsCall' = Copied(c, 0)
               /\ UNCHANGED <<secretsCache, lastPut>>
          ELSE LET res == e.DecryptKey[ver, outcome] IN
               IF res.err # None
               THEN /\ fsCall' = [call EXCEPT !.ret = -5, !.calls = 1]
                    /\ UNCHANGED <<secretsCache, lastPut>>
               ELSE /\ LET c == ReadCopy(res.secret, ofst, size) IN
                       fsCall' = Copied(c, 1)
                    /\ secretsCache' = CachePut(secretsCache, e.path, res.secret, now)
                    /\ lastPut' = [p \in DOMAIN lastPut \cup {e.path} |->
                                      IF p = e.path
                                      THEN [value |-> res.secret, at |-> now]
                                      ELSE lastPut[p]]
    /\ UNCHANGED <<now, tickC, secretsTree, mu, reads, sweepPc, readsLeft, mainPc>>

\* variant: Release drops the entry of the file from the cache table
ReleaseEvicts(inp) ==
    /\ HostIdle
    /\ fsCall' = Called("Release", inp, Result(0, None, 0))
    /\ secretsCache' = [p \in DOMAIN secretsCache \ {FsTable[inp].path} |->
                            secretsCache[p]]
    /\ UNCHANGED <<now, tickC, secretsTree, mu, reads, sweepPc, readsLeft,
                   lastPut, mainPc>>

\* main.go:171-174
Release(inp) ==
    /\ HostIdle
    /\ fsCall' = Called("Release", inp, Result(0, None, 0))
    /\ UNCHANGED <<now, tickC, secretsTree, secretsCache, mu, reads, sweepPc,
                   readsLeft, lastPut, mainPc>>

\* main.go:286-289
Releasedir(inp) ==
    /\ HostIdle
    /\ fsCall' = Called("Releasedir", inp, Result(0, None, 0))
    /\ UNCHANGED <<now, tickC, secretsTree, secretsCache, mu, reads, sweepPc,
                   readsLeft, lastPut, mainPc>>

\* parseSopsKeyPath is called on its own, as TestParseSopsKeyPath calls it
Derive(inp) ==
    /\ HostIdle
    /\ fsCall' = [NoCall EXCEPT !.op = "parseSopsKeyPath", !.lead = inp.lead,
                                !.segs = inp.segs, !.path = FsTable[inp].path,
                                !.keyPath = FsTable[inp].keyPath]
    /\ UNCHANGED <<now, tickC, secretsTree, secretsCache, mu, reads, sweepPc,
                   readsLeft, lastPut, mainPc>>

\* navigateToPath is called on its own, on the key path made of the segments
\* of inp; it holds the mutex shared during the walk
Navigate(inp) ==
    /\ HostIdle
    /\ secretsTree = LoadedTree
    /\ RLockFree(mu)
    /\ LET found == FsTable[inp].navigateToPath IN
       fsCall' = [NoCall EXCEPT !.op = "navigateToPath", !.keyPath = inp.segs,
                                !.node = found.node, !.exists = found.exists]
    /\ UNCHANGED <<now, tickC, secretsTree, secretsCache, mu, reads, sweepPc,
                   readsLeft, lastPut, mainPc>>

\* the host takes the result
CallReturn ==
    /\ ~HostIdle
    /\ fsCall' = NoCall
    /\ UNCHANGED <<now, tickC, secretsTree, secretsCache, mu, reads, sweepPc,
                   readsLeft, lastPut, mainPc>>

\* the callbacks the host may run next, on any of its paths
GetattrCall == HostIdle /\ \E inp \in FsInputs : TreeCall("Getattr", inp)
OpenCall == HostIdle /\ \E inp \in FsInputs : TreeCall("Open", inp)
OpendirCall == HostIdle /\ \E inp \in FsInputs : TreeCall("Opendir", inp)
ReaddirCall == HostIdle /\ \E inp \in FsInputs : ReaddirAtOnce(inp, 4096)
\* a Read that returns at main.go:180 or 308 uses neither the decryptor nor
\* its buffer: one choice of them stands for all
ReadCallAtOnce ==
    HostIdle /\ \E inp \in FsInputs :
        IF FsTable[inp].under /\ FsTable[inp].keyPath # <<>>
        THEN \E ver \in Versions, outcome \in ExternalOutcomes,
                ofst \in HostOffsets, size \in HostBufSizes :
                    ReadAtOnce(inp, ver, outcome, ofst, size)
        ELSE ReadAtOnce(inp, 1, "ok", 0, 4096)
DeriveCall == HostIdle /\ \E inp \in FsInputs : Derive(inp)
NavigateCall == HostIdle /\ \E inp \in FsInputs : inp.lead = "" /\ Navigate(inp)

FsNext ==
    \/ GetattrCall
    \/ OpenCall
    \/ OpendirCall
    \/ ReaddirCall
    \/ ReadCallAtOnce
    \/ DeriveCall
    \/ NavigateCall
    \/ CallReturn

FsSpec == Init /\ [][FsNext]_vars

(***************************************************************************)
(* The mounted filesystem as a whole: the host runs its callbacks one at a *)
(* time on one thread, a Read step by step as in Spec, while the sweep     *)
(* goroutine and the clock go on.                                          *)
(***************************************************************************)
\* the paths the host passes to the callbacks other than Read
\* "/", "/secrets", "/secrets/a.yaml", "/secrets/db", "/secrets/db/pw", "/db"
MountedInputs ==
    {[lead |-> "/", segs |-> segs] :
        segs \in {<<>>, <<"secrets">>, <<"secrets", "a.yaml">>,
                  <<"secrets", "db">>, <<"secrets", "db", "pw">>, <<"db">>}}

\* the host thread runs no Read
SoloIdle == reads[Solo].pc = "idle"

MountedRead == HostIdle /\ \E path \in MountedReadPaths : ReadCall(Solo, path)
MountedGetattr == SoloIdle /\ \E inp \in MountedInputs : TreeCall("Getattr", inp)
MountedOpen == SoloIdle /\ \E inp \in MountedInputs : TreeCall("Open", inp)
MountedOpendir == SoloIdle /\ \E inp \in MountedInputs : TreeCall("Opendir", inp)
MountedReaddir ==
    SoloIdle /\ \E inp \in MountedInputs, room \in HostRooms : ReaddirAtOnce(inp, room)
MountedRelease == SoloIdle /\ \E inp \in MountedInputs : Release(inp)
MountedReleasedir == SoloIdle /\ \E inp \in MountedInputs : Releasedir(inp)

MountedNext ==
    \/ MountedRead
    \/ ReadStep(Solo)
    \/ MountedGetattr
    \/ MountedOpen
    \/ MountedOpendir
    \/ MountedReaddir
    \/ MountedRelease
    \/ MountedReleasedir
    \/ CallReturn
    \/ SweepStep
    \/ Tick

MountedSpec == Init /\ [][MountedNext]_vars

(***************************************************************************)
(* Startup: main calls NewSopsFS (src/main.go:362-365, 43-57), which loads *)
(* the structure with refreshSecretsStructure (main.go:76-88), starts      *)
(* cacheCleanupLoop and returns the filesystem that main then mounts.      *)
(***************************************************************************)
\* the nil map of a SopsFS whose tree has not been assigned
NoTree == Mapping(<<>>)

\* the goroutine of main
Main == "main"

\* the secrets file cannot be read, or is not YAML (part_004:116-124)
LoadOutcomes == {"ok", "failed to read SOPS file", "failed to parse YAML"}

StartInit ==
    /\ now = 0
    /\ tickC = FALSE
    /\ secretsTree = NoTree
    /\ secretsCache = <<>>
    /\ mu = [w |-> None, granted |-> FALSE, readers |-> {}, rwait |-> {}]
    /\ reads = [t \in Workers |-> Idle]
    /\ sweepPc = "unstarted"
    /\ readsLeft = MaxReads
    /\ lastPut = <<>>
    /\ mainPc = "NewSopsFS"
    /\ fsCall = NoCall

\* variant: the sweep goroutine is started before the structure is loaded
StartSweepBeforeLoad ==
    /\ mainPc = "NewSopsFS"
    /\ sweepPc = "unstarted"
    /\ sweepPc' = "ticker"
    /\ UNCHANGED <<mainPc, fsCall, now, tickC, secretsTree, secretsCache, mu,
                   reads, readsLeft, lastPut>>

\* main.go:50-52 and 77-80: GetSecretsStructure returns; on an error
\* refreshSecretsStructure and NewSopsFS return it, and main ends in log.Fatalf
LoadStructure(outcome) ==
    /\ mainPc = "NewSopsFS"
    /\ mainPc' = IF outcome = "ok" THEN "Lock" ELSE "failed"
    /\ UNCHANGED <<fsCall, now, tickC, secretsTree, secretsCache, mu, reads,
                   sweepPc, readsLeft, lastPut>>

\* main.go:82: fs.mu.Lock()
InstallLock ==
    /\ mainPc = "Lock"
    /\ LockFree(mu)
    /\ mu' = LockAnnounce(mu, Main)
    /\ mainPc' = "assign"
    /\ UNCHANGED <<fsCall, now, tickC, secretsTree, secretsCache, reads,
                   sweepPc, readsLeft, lastPut>>

\* main.go:83: fs.secretsTree = structure
InstallTree ==
    /\ mainPc = "assign"
    /\ secretsTree' = LoadedTree
    /\ mainPc' = "Unlock"
    /\ UNCHANGED <<fsCall, now, tickC, secretsCache, mu, reads, sweepPc,
                   readsLeft, lastPut>>

\* main.go:84-87: fs.mu.Unlock() and the return of refreshSecretsStructure
InstallUnlock ==
    /\ mainPc = "Unlock"
    /\ mu' = Unlock(mu)
    /\ mainPc' = "go"
    /\ UNCHANGED <<fsCall, now, tickC, secretsTree, secretsCache, reads,
                   sweepPc, readsLeft, lastPut>>

\* main.go:54: go fs.cacheCleanupLoop()
StartSweep ==
    /\ mainPc = "go"
    /\ sweepPc = "unstarted"
    /\ sweepPc' = "ticker"
    /\ mainPc' = "return"
    /\ UNCHANGED <<fsCall, now, tickC, secretsTree, secretsCache, mu, reads,
                   readsLeft, lastPut>>

\* main.go:56 and 367-381: NewSopsFS returns fs, main mounts it
NewSopsFSReturn ==
    /\ mainPc = "return"
    /\ mainPc' = "Mount"
    /\ UNCHANGED <<fsCall, now, tickC, secretsTree, secretsCache, mu, reads,
                   sweepPc, readsLeft, lastPut>>

\* the host issues callbacks once the filesystem is mounted
StartedRead == mainPc = "Mount" /\ \E path \in ReadPaths : ReadCall(Solo, path)

\* the clock counts from the return of NewSopsFS
StartedTick == mainPc = "Mount" /\ Tick

StartNext ==
    \/ \E outcome \in LoadOutcomes : LoadStructure(outcome)
    \/ InstallLock
    \/ InstallTree
    \/ InstallUnlock
    \/ StartSweep
    \/ NewSopsFSReturn
    \/ StartedRead
    \/ ReadStep(Solo)
    \/ SweepStep
    \/ StartedTick

StartSpec == StartInit /\ [][StartNext]_vars

(***************************************************************************)
(* Steps of a Read, as the properties below speak of them.                 *)
(***************************************************************************)
\* worker t makes its cache lookup in this step
LooksUp(t) == reads[t].pc = "lookup" /\ reads'[t].pc # "lookup"

\* the DecryptKey call of worker t returns in this step
DecryptEnds(t) == reads[t].pc = "DecryptKey" /\ reads'[t].pc # "DecryptKey"

\* the Read of worker t returns in this step
Completes(t) == reads[t].pc # "done" /\ reads'[t].pc = "done"

\* worker t is inside a section guarded by the mutex
InLookup(t) == reads[t].pc = "lookup"
InPut(t) == reads[t].pc = "put"
SweepInPass == sweepPc = "pass"

\* worker t, or the sweep, is in a guarded section or its Lock is returning:
\* its next step is the lookup, the put or the removal pass
Proceeds(t) ==
    \/ InLookup(t)
    \/ InPut(t)
    \/ reads[t].pc = "LockWait" /\ mu.readers = {}
SweepProceeds ==
    \/ SweepInPass
    \/ sweepPc = "LockWait" /\ mu.readers = {}

\* worker t holds the mutex, or has announced itself as its next writer
HoldsMutex(t) == t \in mu.readers \/ mu.w = t

\* worker t cannot take its next step: its RLock or Lock does not return
Blocked(t) ==
    \/ reads[t].pc = "RLock"
    \/ reads[t].pc = "Lock" /\ mu.w # None
    \/ reads[t].pc = "LockWait" /\ mu.readers # {}

(***************************************************************************)
(* C1.  After a Read of p has put its plaintext at time T, a Read of p     *)
(* whose lookup runs while now - T < TTL returns that content and calls    *)
(* the decryptor zero times; a Read of p whose lookup runs once            *)
(* now - T >= TTL calls the decryptor again, once.                         *)
(***************************************************************************)
C1_HitWithinTTLThenDecryptAgain ==
    [][\A t \in Workers :
         (LooksUp(t) /\ reads[t].path \in DOMAIN lastPut) =>
            LET T == lastPut[reads[t].path].at
                r == reads'[t]
            IN IF now - T < secretCacheTTL
               THEN /\ r.pc = "done"
                    /\ r.ret >= 0
                    /\ r.secret = lastPut[reads[t].path].value
                    /\ r.calls = 0
               ELSE /\ r.pc = "DecryptKey"
                    /\ r.calls = 1]_vars

\* one worker holds the result of a hit while, the TTL having elapsed since
\* the put, another worker is in the decrypt call of its Read of the same path
C1_Witness ==
    \E t, u \in Workers :
        /\ reads[t].pc = "done" /\ reads[t].hit /\ reads[t].calls = 0
        /\ reads[t].path \in DOMAIN lastPut
        /\ reads[t].secret = lastPut[reads[t].path].value
        /\ reads[u].pc = "DecryptKey" /\ reads[u].calls = 1
        /\ reads[u].path = reads[t].path
        /\ now - lastPut[reads[t].path].at >= secretCacheTTL

(***************************************************************************)
(* C2.  The lookup of readSecret is a hit if and only if an entry keyed by *)
(* the path is present and now - timestamp < TTL; a hit returns that       *)
(* entry's value, so no Read returns a cached value of age >= TTL.         *)
(***************************************************************************)
C2_HitIffPresentAndFresh ==
    [][\A t \in Workers :
         LooksUp(t) =>
            LET p == reads[t].path
                fresh == /\ p \in DOMAIN secretsCache
                         /\ now - secretsCache[p].timestamp < secretCacheTTL
            IN /\ reads'[t].hit <=> fresh
               /\ reads'[t].hit =>
                     /\ reads'[t].pc = "done"
                     /\ reads'[t].secret = secretsCache[p].value
               /\ ~reads'[t].hit => reads'[t].pc = "DecryptKey"]_vars

\* a lookup has just missed on an entry that is present and exactly TTL old
C2_Witness ==
    \E t \in Workers :
        /\ reads[t].pc = "DecryptKey" /\ reads[t].ctx = "live"
        /\ reads[t].path \in DOMAIN secretsCache
        /\ now - secretsCache[reads[t].path].timestamp = secretCacheTTL

(***************************************************************************)
(* C3.  As claimed: a Read of p that returns within the TTL window of a    *)
(* put to p (whose Read returned the value put) returns that same content, *)
(* under every interleaving.                                               *)
(***************************************************************************)
C3_SameContentWithinTTL ==
    [][\A t \in Workers :
         (/\ Completes(t) /\ reads'[t].ret >= 0
          /\ reads'[t].path \in DOMAIN lastPut
          /\ now - lastPut[reads'[t].path].at < secretCacheTTL)
         => reads'[t].secret = lastPut[reads'[t].path].value]_vars

(***************************************************************************)
(* C3, amended.  Every Read that returns content returns the value of the  *)
(* latest put to its path, its own put when it missed: Reads of a path     *)
(* with no put to that path between them return identical content.         *)
(***************************************************************************)
C3_SameContentBetweenPuts ==
    [][\A t \in Workers :
         (Completes(t) /\ reads'[t].ret >= 0) =>
            /\ reads'[t].path \in DOMAIN lastPut'
            /\ reads'[t].secret = lastPut'[reads'[t].path].value]_vars

\* two Reads of one path have missed together and hold different plaintexts
C3_Witness ==
    \E t, u \in Workers :
        /\ reads[t].pc = "done" /\ reads[u].pc = "done"
        /\ reads[t].path = reads[u].path
        /\ reads[t].ret >= 0 /\ reads[u].ret >= 0
        /\ ~reads[t].hit /\ ~reads[u].hit
        /\ reads[t].secret # reads[u].secret
        /\ lastPut[reads[t].path].value = reads[u].secret

(***************************************************************************)
(* C4.  A decrypt call that has not completed when its 10 s timeout        *)
(* expires releases the calling Read with EIO (-5): once the deadline of   *)
(* its context has passed, the only way a Read leaves DecryptKey is with   *)
(* that error.                                                             *)
(***************************************************************************)
C4_TimeoutReleasesRead ==
    [][\A t \in Workers :
         (DecryptEnds(t) /\ reads[t].ctx = "expired") =>
            /\ reads'[t].pc = "done"
            /\ reads'[t].ret = -5]_vars

(***************************************************************************)
(* C5.  A Read that is waiting on the decryptor holds the mutex neither    *)
(* shared nor exclusive, and the sweep has exclusive access only during    *)
(* its removal pass.                                                       *)
(***************************************************************************)
C5_NoLockAcrossDecrypt ==
    /\ \A t \in Workers :
          reads[t].pc = "DecryptKey" =>
             /\ t \notin mu.readers
             /\ t \notin mu.rwait
             /\ mu.w # t
    /\ (mu.w = Sweeper /\ mu.granted) => sweepPc = "pass"
    /\ sweepPc \in {"ticker", "Lock"} => mu.w # Sweeper

\* a Read of a cached path has run to its end as a hit while the decrypt call
\* of a Read of another path, begun before it, is still in flight
C5_Witness ==
    \E t, u \in Workers :
        /\ reads[t].pc = "DecryptKey" /\ reads[t].ctx = "expired"
        /\ reads[u].pc = "done" /\ reads[u].hit /\ reads[u].ret >= 0
        /\ reads[u].path # reads[t].path
        /\ lastPut[reads[u].path].at = now

(***************************************************************************)
(* C6.  Lookups run under shared access, put and the removal pass under    *)
(* exclusive access: no write to the cache table overlaps a lookup or      *)
(* another write.                                                          *)
(***************************************************************************)
C6_CacheAccessUnderMutex ==
    LET writers == {t \in Workers : InPut(t)}
                       \cup (IF SweepInPass THEN {Sweeper} ELSE {})
        lookers == {t \in Workers : InLookup(t)}
    IN /\ Cardinality(writers) <= 1
       /\ writers # {} => lookers = {}
       /\ \A t \in lookers : t \in mu.readers /\ ~mu.granted
       /\ \A t \in writers : mu.w = t /\ mu.granted /\ mu.readers = {}

\* a Read is in its put while the lookup of another Read waits for it
C6_Witness ==
    \E t, u \in Workers :
        /\ InPut(t)
        /\ reads[u].pc = "RLock" /\ u \in mu.rwait

(***************************************************************************)
(* C7.  As claimed: in no state is a Read of q unable to take its next     *)
(* step while a Read of a different path p holds the mutex.                *)
(***************************************************************************)
C7_ReadsNeverBlockEachOther ==
    \A q, p \in Workers :
        ~ /\ q # p
          /\ reads[q].path # reads[p].path
          /\ Blocked(q)
          /\ HoldsMutex(p)

(***************************************************************************)
(* C7, amended.  A Read is unable to take its next step only while another *)
(* operation stands at its lookup, its put or the removal pass and is able *)
(* to take it; a Read holds the mutex only from the RLock to the RUnlock   *)
(* of its lookup and from the Lock to the Unlock of its put, never while   *)
(* it waits on the decryptor.                                              *)
(***************************************************************************)
C7_BlockedOnlyByCriticalSection ==
    /\ \A q \in Workers :
          Blocked(q) =>
             \/ \E x \in Workers \ {q} : Proceeds(x)
             \/ SweepProceeds
    /\ \A p \in Workers :
          HoldsMutex(p) => reads[p].pc \in {"lookup", "LockWait", "put"}

\* the lookup of a Read of q waits while a Read of another path p is in its put
C7_Witness ==
    \E q, p \in Workers :
        /\ reads[q].pc = "RLock" /\ Blocked(q)
        /\ InPut(p) /\ HoldsMutex(p)
        /\ reads[q].path # reads[p].path

(***************************************************************************)
(* C8.  A Read calls the decryptor at most once: once when its lookup is a *)
(* miss, never when it is a hit; when the call fails the Read returns the  *)
(* failure without a second call.                                          *)
(***************************************************************************)
C8_OneDecryptPerMiss ==
    \A t \in Workers :
        LET r == reads[t] IN
        /\ r.calls <= 1
        /\ r.hit => r.calls = 0
        /\ r.pc \in {"DecryptKey", "Lock", "LockWait", "put"} => r.calls = 1 /\ ~r.hit
        /\ (r.pc = "done" /\ r.ret >= 0 /\ ~r.hit) => r.calls = 1
        /\ (r.pc = "done" /\ r.err \notin {None, "not found"})
              => r.calls = 1 /\ r.ret = -5

\* a Read has returned the failure of its one decrypt call
C8_Witness ==
    \E t \in Workers :
        /\ reads[t].pc = "done" /\ reads[t].err = "sops decrypt failed"
        /\ reads[t].calls = 1 /\ reads[t].ret = -5

(***************************************************************************)
(* C9.  When the decrypt call of a Read fails, the Read returns EIO (-5)   *)
(* and the cache table is left as it was: the step in which the call fails *)
(* changes no entry, and the cache table changes only in a step that is a  *)
(* removal pass or the put of a Read that returns content.                 *)
(***************************************************************************)
C9_FailedDecryptLeavesCache ==
    [][/\ \A t \in Workers :
            (DecryptEnds(t) /\ reads'[t].err # None) =>
               /\ reads'[t].pc = "done"
               /\ reads'[t].ret = -5
               /\ secretsCache' = secretsCache
       /\ secretsCache' # secretsCache =>
             \/ SweepInPass
             \/ \E t \in Workers :
                   InPut(t) /\ Completes(t) /\ reads'[t].ret >= 0 /\ reads'[t].err = None
      ]_vars

\* a Read has returned EIO for a path whose expired entry is still in the table
C9_Witness ==
    \E t \in Workers :
        /\ reads[t].pc = "done" /\ reads[t].ret = -5
        /\ reads[t].err = "sops decrypt failed"
        /\ reads[t].path \in DOMAIN secretsCache
        /\ now - secretsCache[reads[t].path].timestamp >= secretCacheTTL
        /\ secretsCache[reads[t].path] =
              [value |-> lastPut[reads[t].path].value,
               timestamp |-> lastPut[reads[t].path].at]

(***************************************************************************)
(* C10.  The put of a Read of p that missed creates or overwrites the      *)
(* entry keyed by the path string p, with the decrypted plaintext and the  *)
(* time of the put, and leaves every other entry as it was; paths that     *)
(* derive the same key path have entries of their own.                     *)
(***************************************************************************)
C10_PutTouchesOnlyItsPath ==
    [][\A t \in Workers :
         (InPut(t) /\ Completes(t)) =>
            LET p == reads[t].path IN
            /\ DOMAIN secretsCache' = DOMAIN secretsCache \cup {p}
            /\ secretsCache'[p] = [value |-> reads'[t].secret, timestamp |-> now]
            /\ \E ver \in Versions :
                  reads'[t].secret = DecryptKey(ver, parseSopsKeyPath(p), "ok").secret
            /\ \A q \in DOMAIN secretsCache \ {p} : secretsCache'[q] = secretsCache[q]]_vars

\* two paths that derive the same key path hold entries that differ
C10_Witness ==
    \E p, q \in DOMAIN secretsCache :
        /\ p # q
        /\ parseSopsKeyPath(p) = parseSopsKeyPath(q)
        /\ secretsCache[p].value # secretsCache[q].value
        /\ secretsCache[p].timestamp # secretsCache[q].timestamp

(***************************************************************************)
(* C12.  Under fair scheduling, an entry that has expired and is not       *)
(* overwritten is removed by the sweep, as long as the ticker has a tick   *)
(* to deliver at an instant at which the entry is older than TTL: the      *)
(* entry with timestamp T of path p leads to p holding no entry with that  *)
(* timestamp.                                                              *)
(***************************************************************************)
\* the last instant the clock of the model reaches, and the instants of puts
LastTime == ClockStep * (MaxTime \div ClockStep)
PutTimes == {ClockStep * i : i \in 0..(MaxTime \div ClockStep)}

\* the ticker has yet to fire, or the loop has a tick it has not yet served
TickerToFire == now \div cacheCleanupPeriod < LastTime \div cacheCleanupPeriod
TickInHand == tickC \/ sweepPc # "ticker"

HoldsEntryOf(p, T) == p \in DOMAIN secretsCache /\ secretsCache[p].timestamp = T

C12_ExpiredEventuallyRemoved ==
    \A p \in ReadPaths, T \in PutTimes :
        (/\ HoldsEntryOf(p, T)
         /\ \/ now - T >= secretCacheTTL /\ TickerToFire
            \/ now - T > secretCacheTTL /\ TickInHand)
        ~> ~HoldsEntryOf(p, T)

\* the loop has served its tick and the entry of a path that was put is gone
C12_Witness ==
    \E p \in DOMAIN lastPut :
        /\ p \notin DOMAIN secretsCache
        /\ now - lastPut[p].at > secretCacheTTL
        /\ sweepPc = "ticker" /\ ~tickC

(***************************************************************************)
(* C13.  One pass of the sweep at instant now removes the entries with     *)
(* now - timestamp > TTL and nothing else: an entry of age <= TTL keeps    *)
(* its value and timestamp, a pass over a table without such entries       *)
(* changes nothing, and after the pass the lookup of a path whose entry    *)
(* had age >= TTL is a miss.                                               *)
(***************************************************************************)
C13_SweepRemovesExactlyOlderThanTTL ==
    [][(SweepInPass /\ sweepPc' # "pass") =>
          LET old == {p \in DOMAIN secretsCache :
                         now - secretsCache[p].timestamp > secretCacheTTL}
          IN /\ DOMAIN secretsCache' = DOMAIN secretsCache \ old
             /\ \A p \in DOMAIN secretsCache' : secretsCache'[p] = secretsCache[p]
             /\ old = {} => secretsCache' = secretsCache
             /\ \A p \in DOMAIN secretsCache :
                   now - secretsCache[p].timestamp >= secretCacheTTL =>
                      ~CacheHit(secretsCache', p, now)]_vars

\* a pass has removed one entry, and the lookup of a path whose entry is
\* exactly TTL old, which the pass keeps, has missed
C13_Witness ==
    \E p \in DOMAIN lastPut, t \in Workers :
        /\ p \notin DOMAIN secretsCache
        /\ reads[t].pc = "DecryptKey" /\ reads[t].path # p
        /\ reads[t].path \in DOMAIN secretsCache
        /\ now - secretsCache[reads[t].path].timestamp = secretCacheTTL

(***************************************************************************)
(* C14.  As claimed: once shutdown has been signalled the sweep task        *)
(* stops, that is, cacheCleanupLoop leaves its loop over the ticker and    *)
(* returns.                                                                *)
(***************************************************************************)
C14_SweepStopsAfterShutdown ==
    (mainPc = "unmounted") ~> (sweepPc = "returned")

(***************************************************************************)
(* Paths, as the properties below speak of them: a path of the host is     *)
(* its lead followed by its segments joined with "/".                      *)
(***************************************************************************)
\* the call derives a key path: at least two segments, the first "secrets"
UnderRoot(c) == Len(c.segs) >= 2 /\ c.segs[1] = "secrets"

\* the path of the call starts with "/secrets/"
StartsWithSecrets(c) == c.lead = "/" /\ UnderRoot(c)

\* the path of the call is neither "/" nor "/secrets" and has the wrong root
WrongRoot(c) ==
    /\ ~StartsWithSecrets(c)
    /\ ~(c.lead = "/" /\ c.segs = <<>>)
    /\ ~(c.lead = "/" /\ c.segs = <<"secrets">>)

Recognized(seg) == HasSuffix(seg, ".yaml") \/ HasSuffix(seg, ".txt")

\* seg without its outermost recognized suffix
OuterSuffixRemoved(seg) ==
    IF HasSuffix(seg, ".yaml") THEN TrimSuffix(seg, ".yaml")
    ELSE TrimSuffix(seg, ".txt")

LastOf(seq) == seq[Len(seq)]

\* number of leaves of a tree
RECURSIVE NumLeaves(_)
NumLeaves(node) ==
    IF ~IsMap(node) THEN 1
    ELSE LET RECURSIVE Sum(_)
             Sum(kv) == IF kv = <<>> THEN 0
                        ELSE NumLeaves(Head(kv)[2]) + Sum(Tail(kv))
         IN Sum(node.kv)

(***************************************************************************)
(* C11.  As claimed: the cache table never holds more entries than the     *)
(* secret tree has leaves.                                                 *)
(***************************************************************************)
C11_EntriesBoundedByLeaves ==
    Cardinality(DOMAIN secretsCache) <= NumLeaves(secretsTree)

(***************************************************************************)
(* C15.  Getattr has exactly one of three outcomes on every path: it       *)
(* reports a directory (returns 0, mode S_IFDIR), it reports a regular     *)
(* file (returns 0, mode S_IFREG), or it returns ENOENT (-2) and reports   *)
(* nothing.                                                                *)
(***************************************************************************)
C15_DirectoryFileOrNotFound ==
    fsCall.op = "Getattr" =>
        LET dir == fsCall.mode = DirMode
            file == fsCall.mode = FileMode
            notFound == fsCall.ret = -2
        IN /\ (dir /\ ~file /\ ~notFound)
              \/ (~dir /\ file /\ ~notFound)
              \/ (~dir /\ ~file /\ notFound)
           /\ (dir \/ file) <=> fsCall.ret = 0

\* Getattr has reported a regular file below a directory of the tree
C15_Witness ==
    /\ fsCall.op = "Getattr" /\ fsCall.lead = "/"
    /\ fsCall.segs = <<"secrets", "db", "pw">>
    /\ fsCall.ret = 0 /\ fsCall.mode = FileMode

(***************************************************************************)
(* C16.  parseSopsKeyPath is total: on every string it returns nil, when   *)
(* the string has fewer than two segments or its first is not "secrets",   *)
(* or else a non-empty sequence of strings, one key per further segment.   *)
(***************************************************************************)
C16_DerivationTotal ==
    fsCall.op = "parseSopsKeyPath" =>
        LET keys == fsCall.keyPath IN
        /\ keys = <<>> \/ Len(keys) >= 1
        /\ \A i \in 1..Len(keys) : keys[i] \in STRING
        /\ IF UnderRoot(fsCall) THEN Len(keys) = Len(fsCall.segs) - 1
           ELSE keys = <<>>

\* the empty string has derived nil
C16_Witness ==
    /\ fsCall.op = "parseSopsKeyPath"
    /\ fsCall.path = "" /\ fsCall.keyPath = <<>>

(***************************************************************************)
(* C17.  As claimed: /secrets/k1/.../kn whose segments carry no recognized *)
(* suffix derives <<k1, ..., kn>>; when the last segment ends in .yaml or  *)
(* .txt, the last key is that segment with the suffix removed; a path      *)
(* whose first segment is not "secrets", and the empty string, derive nil. *)
(***************************************************************************)
C17_DerivationOfSecretsPaths ==
    fsCall.op = "parseSopsKeyPath" =>
        LET keys == fsCall.keyPath
            segs == fsCall.segs
        IN /\ (/\ StartsWithSecrets(fsCall)
               /\ \A i \in 2..Len(segs) : ~Recognized(segs[i]))
              => keys = Tail(segs)
           /\ (StartsWithSecrets(fsCall) /\ Recognized(LastOf(segs)))
              => /\ keys # <<>>
                 /\ LastOf(keys) = OuterSuffixRemoved(LastOf(segs))
           /\ (segs = <<>> \/ segs[1] # "secrets") => keys = <<>>

(***************************************************************************)
(* C18.  As claimed: only the final segment is stripped of a recognized    *)
(* suffix; every segment before it appears unchanged in the key path.      *)
(***************************************************************************)
C18_OnlyFinalSegmentStripped ==
    (fsCall.op = "parseSopsKeyPath" /\ UnderRoot(fsCall)) =>
        /\ Len(fsCall.keyPath) = Len(fsCall.segs) - 1
        /\ \A i \in 1..(Len(fsCall.keyPath) - 1) :
              fsCall.keyPath[i] = fsCall.segs[i + 1]

(***************************************************************************)
(* C19.  As claimed: at most one recognized suffix is stripped from the    *)
(* last segment, the outermost one.                                        *)
(***************************************************************************)
C19_AtMostOneSuffixStripped ==
    (fsCall.op = "parseSopsKeyPath" /\ UnderRoot(fsCall)) =>
        LET last == LastOf(fsCall.segs)
            key == LastOf(fsCall.keyPath)
        IN /\ key \in {last, TrimSuffix(last, ".yaml"), TrimSuffix(last, ".txt")}
           /\ Len(last) - Len(key) <= 5

(***************************************************************************)
(* C20.  On a path other than "/" and "/secrets" that does not start with  *)
(* "/secrets/", Getattr, Opendir, Open, Readdir and Read return ENOENT     *)
(* (-2), leave the cache table as it is and do not call the decryptor.     *)
(***************************************************************************)
C20_WrongRootIsNotFound ==
    [][(/\ HostIdle
        /\ fsCall'.op \in {"Getattr", "Opendir", "Open", "Readdir", "Read"}
        /\ WrongRoot(fsCall'))
       => /\ fsCall'.ret = -2
          /\ fsCall'.calls = 0
          /\ fsCall'.mode = None
          /\ secretsCache' = secretsCache]_vars

\* Read has returned ENOENT on a path without the leading "/", which derives
\* a key path of the tree, while the cache table holds entries
C20_Witness ==
    /\ fsCall.op = "Read" /\ fsCall.ret = -2 /\ fsCall.calls = 0
    /\ fsCall.lead = "" /\ fsCall.segs = <<"secrets", "db", "pw">>
    /\ secretsCache # <<>>

(***************************************************************************)
(* The secret tree, as the properties below speak of it: its nodes, each   *)
(* with the key path that names it, listed from the root downwards.        *)
(***************************************************************************)
RECURSIVE Walks(_)
Walks(node) ==
    {[at |-> <<>>, node |-> node]} \cup
    (IF IsMap(node)
     THEN UNION {{[at |-> <<k>> \o w.at, node |-> w.node] : w \in Walks(Child(node, k))}
                    : k \in Keys(node)}
     ELSE {})

\* the walk along keyPath cannot take its i-th segment: the node named by
\* the segments before it is a leaf, or an interior node without that key
StuckAt(tree, keyPath, i) ==
    \E w \in Walks(tree) :
        /\ w.at = SubSeq(keyPath, 1, i - 1)
        /\ (~IsMap(w.node) \/ ~HasKey(w.node, keyPath[i]))

(***************************************************************************)
(* C21.  navigateToPath fails closed: when some segment of the key path is *)
(* missing from the interior node reached so far, or that node is a leaf   *)
(* while a segment remains, it returns (nil, false); otherwise it returns  *)
(* the node that the whole key path names.  It returns on every key path.  *)
(***************************************************************************)
C21_NavigateFailsClosed ==
    fsCall.op = "navigateToPath" =>
        LET keyPath == fsCall.keyPath IN
        IF \E i \in 1..Len(keyPath) : StuckAt(secretsTree, keyPath, i)
        THEN ~fsCall.exists /\ fsCall.node = None
        ELSE /\ fsCall.exists
             /\ {w \in Walks(secretsTree) : w.at = keyPath}
                    = {[at |-> keyPath, node |-> fsCall.node]}

\* navigateToPath has returned (nil, false) on a key path that runs through
\* a leaf of the tree and has a segment left
C21_Witness ==
    /\ fsCall.op = "navigateToPath"
    /\ fsCall.keyPath = <<"db", "pw", "db">>
    /\ ~fsCall.exists

(***************************************************************************)
(* What a path resolves to: the nodes of the tree named by the key path    *)
(* derived from it, for a path that starts with "/secrets/"; none for any  *)
(* other path.                                                             *)
(***************************************************************************)
UnderSecretsDir(c) == c.lead = "/" /\ UnderRoot(c)

Resolved(tree, c) ==
    IF UnderSecretsDir(c)
    THEN {w.node : w \in {v \in Walks(tree) : v.at = parseSopsKeyPath(c.path)}}
    ELSE {}

ResolvesToInterior(tree, c) == \E n \in Resolved(tree, c) : IsMap(n)
ResolvesToLeaf(tree, c) == \E n \in Resolved(tree, c) : ~IsMap(n)

Listing(node) ==
    {<<w.at[1], IF IsMap(w.node) THEN DirMode ELSE FileMode>> :
        w \in {v \in Walks(node) : Len(v.at) = 1}}

C23_ReaddirListsChildren ==
    fsCall.op = "Readdir" =>
        LET entries == fsCall.filled \ {<<".", None>>, <<"..", None>>} IN
        IF fsCall.path = "/"
        THEN fsCall.ret = 0 /\ entries = {<<"secrets", DirMode>>}
        ELSE IF fsCall.path = "/secrets"
        THEN fsCall.ret = 0 /\ entries = Listing(secretsTree)
        ELSE IF ResolvesToInterior(secretsTree, fsCall)
        THEN /\ fsCall.ret = 0
             /\ \A n \in Resolved(secretsTree, fsCall) : entries = Listing(n)
        ELSE IF ResolvesToLeaf(secretsTree, fsCall)
        THEN fsCall.ret = -20 /\ entries = {}
        ELSE fsCall.ret = -2 /\ entries = {}

\* Readdir has listed "/secrets": a file and a directory
C23_Witness ==
    /\ fsCall.op = "Readdir"
    /\ fsCall.path = "/secrets"
    /\ <<"a", FileMode>> \in fsCall.filled
    /\ <<"db", DirMode>> \in fsCall.filled

(***************************************************************************)
(* C24.  Open returns EISDIR (-21) on a path that resolves to an interior  *)
(* node, success on one that resolves to a leaf and ENOENT (-2) on one     *)
(* that resolves to nothing; it does not call the decryptor and leaves the *)
(* cache table as it is, and its result does not depend on the table.      *)
(***************************************************************************)
C24_OpenChecksNodeKind ==
    [][(HostIdle /\ fsCall'.op = "Open")
       => /\ fsCall'.ret = (IF ResolvesToInterior(secretsTree, fsCall') THEN -21
                            ELSE IF ResolvesToLeaf(secretsTree, fsCall') THEN 0
                            ELSE -2)
          /\ fsCall'.calls = 0
          /\ fsCall'.data = ""
          /\ secretsCache' = secretsCache]_vars

\* Open has returned EISDIR on a directory whose rendering is in the cache
\* table
C24_Witness ==
    /\ fsCall.op = "Open"
    /\ fsCall.path = "/secrets/db"
    /\ fsCall.ret = -21
    /\ fsCall.path \in DOMAIN secretsCache

(***************************************************************************)
(* C25.  Opendir returns success exactly on "/", on "/secrets" and on the  *)
(* paths that resolve to an interior node; it returns ENOTDIR (-20) on a   *)
(* path that resolves to a leaf and ENOENT (-2) on every other path.       *)
(***************************************************************************)
C25_OpendirChecksNodeKind ==
    fsCall.op = "Opendir" =>
        fsCall.ret = (IF fsCall.path \in {"/", "/secrets"}
                         \/ ResolvesToInterior(secretsTree, fsCall) THEN 0
                      ELSE IF ResolvesToLeaf(secretsTree, fsCall) THEN -20
                      ELSE -2)

\* Opendir has returned ENOTDIR on a file
C25_Witness ==
    /\ fsCall.op = "Opendir"
    /\ fsCall.path = "/secrets/db/pw"
    /\ fsCall.ret = -20

(***************************************************************************)
(* C26.  A Read that has obtained the content, of length L, at offset o    *)
(* into a buffer of capacity c: when o < L it returns n = min(c, L - o)    *)
(* and the buffer holds the n bytes of the content from o on; when o >= L  *)
(* it returns 0 and no error.  Reads at advancing offsets therefore give   *)
(* the successive pieces of the string in the cache table.                 *)
(***************************************************************************)
\* under the host that runs one callback at a time, Read has obtained the
\* content exactly when the cache table holds the path after the call
ReadHasContent == fsCall.op = "Read" /\ fsCall.path \in DOMAIN secretsCache

C26_ReadReturnsSliceAtOffset ==
    ReadHasContent =>
        LET content == secretsCache[fsCall.path].value
            L == Len(content)
            o == fsCall.ofst
            c == fsCall.cap
            n == IF c < L - o THEN c ELSE L - o
        IN IF o < L
           THEN /\ fsCall.ret = n
                /\ Len(fsCall.data) = n
                /\ SubSeq(content, 1, o) \o fsCall.data
                       \o SubSeq(content, o + n + 1, L) = content
           ELSE fsCall.ret = 0 /\ fsCall.data = ""

\* Read has returned the second byte of a four-byte secret into a buffer of
\* one byte
C26_Witness ==
    /\ ReadHasContent
    /\ fsCall.path = "/secrets/db/pw"
    /\ fsCall.ofst = 1 /\ fsCall.cap = 1
    /\ fsCall.ret = 1 /\ fsCall.data = "4"

\* Read has returned 0 at the offset that is the length of the content
C26_WitnessEndOfData ==
    /\ ReadHasContent
    /\ fsCall.ofst = Len(secretsCache[fsCall.path].value)
    /\ fsCall.ret = 0

(***************************************************************************)
(* C27.  The filesystem is read-only.  No step changes the secret tree, so *)
(* what a path is (directory, file, absent) never changes.  Getattr, Open, *)
(* Opendir, Readdir, Release and Releasedir leave the cache table as it    *)
(* is; Release and Releasedir return 0.  The cache table changes only in   *)
(* the put of a Read that missed and whose decryption succeeded, and in    *)
(* the removal pass of the sweep.                                          *)
(***************************************************************************)
\* this step is the return of a callback that does not read file content
TreeCallbackReturns ==
    /\ HostIdle
    /\ fsCall'.op \in {"Getattr", "Open", "Opendir", "Readdir",
                       "Release", "Releasedir"}

\* this step is the put of a Read that missed and has decrypted its secret
MissReadPuts ==
    \E t \in Workers :
        /\ InPut(t) /\ reads'[t].pc = "done"
        /\ ~reads[t].hit /\ reads[t].calls = 1 /\ reads[t].err = None
        /\ reads'[t].ret >= 0

\* this step is the removal pass of cacheCleanupLoop
SweepPasses == SweepInPass /\ sweepPc' = "ticker"

C27_ReadOnlyFilesystem ==
    [][/\ secretsTree' = secretsTree
       /\ TreeCallbackReturns =>
              /\ secretsCache' = secretsCache
              /\ fsCall'.calls = 0
              /\ fsCall'.op \in {"Release", "Releasedir"} => fsCall'.ret = 0
       /\ fsCall'.op = "Getattr" =>
              fsCall'.mode = Getattr(GetSecretsStructure(1), fsCall'.path).mode
       /\ secretsCache' # secretsCache => MissReadPuts \/ SweepPasses]_vars

\* Release has returned on a file whose value is in the cache table, after a
\* sweep has removed an entry
C27_Witness ==
    /\ fsCall.op = "Release"
    /\ fsCall.path = "/secrets/a.yaml"
    /\ fsCall.path \in DOMAIN secretsCache
    /\ \E p \in DOMAIN lastPut : p \notin DOMAIN secretsCache

(***************************************************************************)
(* C28.  NewSopsFS loads the structure before anything else.  When the     *)
(* load fails it returns the error and no filesystem, and the sweep task   *)
(* is never started.  The sweep task is started only after the tree has    *)
(* been installed, and the tree is installed by one assignment, made under *)
(* exclusive access.                                                       *)
(***************************************************************************)
\* nothing has happened to the filesystem under construction
Untouched ==
    /\ secretsTree = NoTree
    /\ secretsCache = <<>>
    /\ sweepPc = "unstarted"
    /\ mu.w = None /\ mu.readers = {}
    /\ \A t \in Workers : reads[t] = Idle

SweepStarted == sweepPc # "unstarted"

C28_LoadThenInstallThenSweep ==
    [][/\ mainPc = "NewSopsFS" => Untouched
       /\ mainPc' = "failed" => Untouched' /\ mainPc \in {"NewSopsFS", "failed"}
       /\ mainPc = "failed" => mainPc' = "failed" /\ ~SweepStarted'
       /\ SweepStarted' => secretsTree' = LoadedTree
       /\ secretsTree' # secretsTree =>
              /\ secretsTree = NoTree /\ secretsTree' = LoadedTree
              /\ mu.w = Main /\ mu.granted /\ mu.readers = {}
              /\ ~SweepStarted]_vars

\* the load has failed: no tree, no sweep task, no filesystem to mount
C28_Witness ==
    /\ mainPc = "failed"
    /\ secretsTree = NoTree
    /\ sweepPc = "unstarted"

\* the sweep task has been started on the installed tree and has made a pass
C28_WitnessStarted ==
    /\ mainPc = "Mount"
    /\ secretsTree = LoadedTree
    /\ sweepPc = "pass"

(***************************************************************************)
(* C29.  The top-level key "sops" of the secrets file is not in the tree:  *)
(* in every state the tree has no top-level key "sops", Readdir on         *)
(* "/secrets" does not emit it, and Getattr, Open and Opendir on           *)
(* "/secrets/sops" return ENOENT (-2).                                     *)
(***************************************************************************)
C29_SopsKeyExcluded ==
    /\ ~HasKey(secretsTree, "sops")
    /\ (fsCall.op = "Readdir" /\ fsCall.path = "/secrets") =>
           \A e \in fsCall.filled : e[1] # "sops"
    /\ (fsCall.op \in {"Getattr", "Open", "Opendir"}
        /\ fsCall.path = "/secrets/sops") => fsCall.ret = -2

\* Opendir has returned ENOENT on "/secrets/sops", a mapping of the file on
\* disk
C29_Witness ==
    /\ fsCall.op = "Opendir"
    /\ fsCall.path = "/secrets/sops"
    /\ fsCall.ret = -2
    /\ \A ver \in Versions :
           /\ HasKey(EncryptedFile(ver), "sops")
           /\ IsMap(Child(EncryptedFile(ver), "sops"))

(***************************************************************************)
(* The log.  Each log.Printf of the program is the text it writes; the     *)
(* host passes flags 0 and file handle 0, and the Read of Spec is given    *)
(* offset 0 and a buffer of 4096 bytes.  The log is only written, so it is *)
(* no variable: StepLog is what a step writes.                             *)
(***************************************************************************)
\* the file main passes to NewSopsFS, and time.Since(start) as fmt prints it
SecretsFile == "secrets.yaml"
Elapsed == "0s"

\* main.go:109, 143, 148, 172, 200, 259, 287
LogGetattr(path) == "[Getattr] path=" \o path
LogGetattrFile(path) == "[Getattr] File " \o path \o " exists, using default size"
LogOpen(path) == "[Open] path=" \o path \o " flags=0"
LogRelease(path) == "[Release] path=" \o path \o " fh=0"
LogReaddir(path) == "[Readdir] path=" \o path
LogOpendir(path) == "[Opendir] path=" \o path
LogReleasedir(path) == "[Releasedir] path=" \o path \o " fh=0"

\* main.go:177, 185, 195
LogRead(path) == "[Read] path=" \o path \o " offset=0 size=4096"
LogReadError(err) == "[Read] Error reading secret: " \o err
LogReadReturning(n) == "[Read] Returning " \o ToString(n) \o " bytes"

\* main.go:319, 325, 341
LogCacheHit(path) == "[ReadSecret] Cache HIT for " \o path
LogCacheMiss(path) == "[ReadSecret] Cache MISS for " \o path \o ", decrypting..."
LogCached(path) == "[ReadSecret] Cached decrypted secret for " \o path

\* part_004:133, 155, 159
LogDecrypting(keyPath) ==
    "[SopsClient] Decrypting key " \o SprintKeys(keyPath) \o " from " \o SecretsFile
LogDecryptFailed(err) ==
    "[SopsClient] decrypt failed after " \o Elapsed \o ": " \o err \o " (KeyServices=2)"
LogDecryptOk == "[SopsClient] decrypt ok in " \o Elapsed

\* main.go:69
LogRemoved(path) == "[CacheCleanup] Removed expired cache entry for " \o path

\* main.go:190-195: Read logs the number of bytes unless it meets the end
Returning(r) == IF r.ret > 0 THEN {LogReadReturning(r.ret)} ELSE {}

\* what the callback that returns in this step on the host thread has written
CallbackLog ==
    LET c == fsCall' IN
    IF ~HostIdle THEN {}
    ELSE IF c.op = "Getattr"
    THEN {LogGetattr(c.path)}
         \cup (IF c.mode = FileMode THEN {LogGetattrFile(c.path)} ELSE {})
    ELSE IF c.op = "Open" THEN {LogOpen(c.path)}
    ELSE IF c.op = "Opendir" THEN {LogOpendir(c.path)}
    ELSE IF c.op = "Readdir" THEN {LogReaddir(c.path)}
    ELSE IF c.op = "Release" THEN {LogRelease(c.path)}
    ELSE IF c.op = "Releasedir" THEN {LogReleasedir(c.path)}
    ELSE {}

\* what the Read of worker t, with readSecret and DecryptKey, writes in this step
ReadLog(t) ==
    LET r == reads'[t] IN
    IF reads[t].pc = "idle" /\ r.pc # "idle"
    THEN {LogRead(r.path)}
         \cup (IF r.pc = "done" /\ r.err # None THEN {LogReadError(r.err)} ELSE {})
    ELSE IF LooksUp(t)
    THEN IF r.hit
         THEN {LogCacheHit(r.path)} \cup Returning(r)
         ELSE {LogCacheMiss(r.path), LogDecrypting(KeyPathOf[r.path])}
    ELSE IF DecryptEnds(t)
    THEN IF r.err = None THEN {LogDecryptOk}
         ELSE {IF r.err \in ExternalOutcomes THEN LogDecryptFailed(r.err)
                                             ELSE LogDecryptOk,
               LogReadError(r.err)}
    ELSE IF InPut(t) /\ Completes(t)
    THEN {LogCached(r.path)} \cup Returning(r)
    ELSE {}

\* what the removal pass writes
SweepLog ==
    IF SweepInPass /\ sweepPc' = "ticker"
    THEN {LogRemoved(path) : path \in DOMAIN secretsCache \ DOMAIN secretsCache'}
    ELSE {}

StepLog == CallbackLog \cup SweepLog \cup UNION {ReadLog(t) : t \in Workers}

(***************************************************************************)
(* C30.  No log event carries a decrypted secret value: whatever a         *)
(* callback, readSecret, the sweep or the decrypt client writes to the log *)
(* in a step, on success and on failure, contains none of the values of    *)
(* the decrypted document.                                                 *)
(***************************************************************************)
\* the values DecryptKey can return from the decrypted document
SecretValues ==
    UNION {{Sprintf(w.node) : w \in Walks(PlainFile(ver))} : ver \in Versions}

Contains(text, v) ==
    \E i \in 1..(Len(text) - Len(v) + 1) : SubSeq(text, i, i + Len(v) - 1) = v

C30_NoSecretInLog ==
    [][\A event \in StepLog : \A v \in SecretValues : ~Contains(event, v)]_vars

\* a Read whose key path runs through a leaf has returned the error of the
\* walk over the decrypted document, which names the key and not the value
C30_Witness ==
    /\ reads[Solo].pc = "done"
    /\ reads[Solo].path = "/secrets/a/zz"
    /\ reads[Solo].err = "path error at " \o Quoted("zz")
    /\ reads[Solo].calls = 1

\* a Read has returned content it decrypted and put into the cache table
C30_WitnessDecrypted ==
    /\ reads[Solo].pc = "done"
    /\ ~reads[Solo].hit /\ reads[Solo].ret > 0
    /\ reads[Solo].data \in SecretValues

(***************************************************************************)
(* C31.  Reads that miss on the same path at the same time each call the   *)
(* decryptor, whatever calls are in flight; each returns the plaintext of  *)
(* its own call; each put replaces the entry of the path, so that after    *)
(* the last of them the table holds for that path one entry, with the      *)
(* value of the put that ran last.                                         *)
(***************************************************************************)
\* another worker is in its decrypt call for the path worker t reads
OtherInFlight(t) ==
    \E u \in Workers \ {t} :
        reads[u].pc = "DecryptKey" /\ reads[u].path = reads[t].path

C31_ConcurrentMissesEachDecrypt ==
    [][/\ \A t \in Workers :
            /\ (LooksUp(t) /\ ~CacheHit(secretsCache, reads[t].path, now)) =>
                   reads'[t].pc = "DecryptKey" /\ reads'[t].calls = 1
            /\ (DecryptEnds(t) /\ reads'[t].err = None) =>
                   \E ver \in Versions :
                       reads'[t].secret = Decrypted[ver, reads[t].path, "ok"].secret
            /\ (InPut(t) /\ Completes(t)) =>
                   /\ reads'[t].secret = reads[t].secret
                   /\ reads'[t].data = ReadCopy(reads[t].secret, 0, 4096).data
                   /\ secretsCache'[reads[t].path].value = reads[t].secret
                   /\ lastPut'[reads[t].path].value = reads[t].secret
       /\ \A p \in DOMAIN secretsCache' :
              secretsCache'[p].value = lastPut'[p].value]_vars

\* two Reads of one path that both missed have returned, each the plaintext
\* of its own decrypt call, the two being different; the table holds the
\* value of the one that put last
C31_Witness ==
    \E t, u \in Workers :
        /\ t # u
        /\ reads[t].pc = "done" /\ reads[u].pc = "done"
        /\ reads[t].path = reads[u].path
        /\ ~reads[t].hit /\ ~reads[u].hit
        /\ reads[t].calls = 1 /\ reads[u].calls = 1
        /\ reads[t].ret > 0 /\ reads[u].ret > 0
        /\ reads[t].data # reads[u].data
        /\ reads[t].path \in DOMAIN secretsCache
        /\ secretsCache[reads[t].path].value = reads[u].data
        /\ lastPut[reads[t].path].value = reads[u].data

\* two decrypt calls for one path are in flight
C31_WitnessInFlight ==
    \E t \in Workers : reads[t].pc = "DecryptKey" /\ OtherInFlight(t)

(***************************************************************************)
(* C32.  The lookup of a Read leaves the cache table as it is.  An entry   *)
(* that is present but no longer fresh makes the lookup a miss, and it     *)
(* keeps its value and timestamp until the put of a Read of the same path  *)
(* replaces it or a removal pass of the sweep deletes it.                  *)
(***************************************************************************)
\* the table holds an entry for the path worker t reads, and it is not fresh
StaleFor(t) ==
    /\ Cached(secretsCache, reads[t].path)
    /\ now - secretsCache[reads[t].path].timestamp >= secretCacheTTL

\* this step puts the secret that a Read of path p has decrypted
PutsFor(p) ==
    \E t \in Workers :
        /\ InPut(t) /\ Completes(t)
        /\ reads[t].path = p /\ reads[t].err = None
        /\ secretsCache'[p] = [value |-> reads[t].secret, timestamp |-> now]

C32_LookupLeavesTable ==
    [][/\ \A t \in Workers :
            /\ LooksUp(t) => secretsCache' = secretsCache
            /\ (LooksUp(t) /\ StaleFor(t)) =>
                   ~reads'[t].hit /\ reads'[t].pc = "DecryptKey"
       /\ \A p \in DOMAIN secretsCache :
              \/ p \in DOMAIN secretsCache' /\ secretsCache'[p] = secretsCache[p]
              \/ PutsFor(p)
              \/ /\ SweepPasses
                 /\ p \notin DOMAIN secretsCache'
                 /\ Expired(secretsCache[p], now)]_vars

\* a Read has looked up a path whose entry was no longer fresh: it is in its
\* decrypt call, and the entry is still in the table, as old as it was
C32_Witness ==
    \E t \in Workers :
        /\ reads[t].pc = "DecryptKey"
        /\ StaleFor(t)
        /\ secretsCache[reads[t].path].value = lastPut[reads[t].path].value
        /\ secretsCache[reads[t].path].timestamp = lastPut[reads[t].path].at

C33_CallersRejectNoKeyPath ==
    (/\ fsCall.op \in {"Getattr", "Open", "Opendir", "Readdir"}
     /\ parseSopsKeyPath(fsCall.path) = <<>>
     /\ fsCall.path \notin {"/", "/secrets"}) => fsCall.ret = -2

\* navigateToPath has returned the root mapping on the empty key path
C33_ReturnsRoot ==
    /\ fsCall.op = "navigateToPath"
    /\ fsCall.keyPath = <<>>
    /\ fsCall.exists
    /\ IsMap(fsCall.node)
    /\ Keys(fsCall.node) = Keys(secretsTree)

(***************************************************************************)
(* C34.  Read does not consult the tree.  On a path that starts with       *)
(* "/secrets/" it returns a byte count >= 0 or EIO (-5), never ENOENT (-2) *)
(* or EISDIR (-21); when the cache has no fresh entry it calls the         *)
(* decryptor, whether the path resolves to a leaf, to an interior node or  *)
(* to nothing; and what a successful call returns is put in the cache.     *)
(***************************************************************************)
\* this step is a Read of a path that starts with "/secrets/"
ReadsUnderSecrets ==
    HostIdle /\ fsCall'.op = "Read" /\ HasPrefix(fsCall'.path, "/secrets/")

C34_ReadIgnoresTree ==
    [][ReadsUnderSecrets =>
          LET path == fsCall'.path IN
          /\ fsCall'.ret >= 0 \/ fsCall'.ret = -5
          /\ fsCall'.calls = IF CacheHit(secretsCache, path, now) THEN 0 ELSE 1
          /\ (fsCall'.calls = 1 /\ fsCall'.ret >= 0) =>
                 /\ Cached(secretsCache', path)
                 /\ secretsCache'[path].timestamp = now
                 /\ \E ver \in Versions :
                        /\ DecryptKey(ver, parseSopsKeyPath(path), "ok").err = None
                        /\ secretsCache'[path].value =
                               DecryptKey(ver, parseSopsKeyPath(path), "ok").secret
          /\ fsCall'.ret = -5 =>
                 fsCall'.calls = 1 /\ secretsCache' = secretsCache]_vars

\* Read of a path that names an interior node has called the decryptor, has
\* returned bytes, and the table holds an entry for the path
C34_Witness ==
    /\ fsCall.op = "Read"
    /\ ResolvesToInterior(secretsTree, fsCall)
    /\ fsCall.calls = 1 /\ fsCall.ret > 0
    /\ Cached(secretsCache, fsCall.path)

\* Read of a path that names nothing in the tree has called the decryptor
\* and has returned EIO
C34_WitnessNothing ==
    /\ fsCall.op = "Read"
    /\ HasPrefix(fsCall.path, "/secrets/")
    /\ Resolved(secretsTree, fsCall) = {}
    /\ fsCall.calls = 1 /\ fsCall.ret = -5

\* Read of a path that names a leaf has called the decryptor and has
\* returned bytes
C34_WitnessLeaf ==
    /\ fsCall.op = "Read"
    /\ ResolvesToLeaf(secretsTree, fsCall)
    /\ fsCall.calls = 1 /\ fsCall.ret > 0
    /\ Cached(secretsCache, fsCall.path)

(***************************************************************************)
(* C35.  The callbacks agree on the kind of the node a path names: Opendir *)
(* succeeds exactly when Getattr reports a directory, Open succeeds        *)
(* exactly when Getattr reports a regular file, Readdir returns 0 exactly  *)
(* when Opendir succeeds; and Open on "/" and on "/secrets" returns        *)
(* ENOENT (-2), not EISDIR, while Getattr reports both as directories.     *)
(***************************************************************************)
\* what Getattr reports, in the same state, on the path of the call at hand
GetattrSaysDirectory ==
    LET g == Getattr(secretsTree, fsCall.path) IN g.ret = 0 /\ g.mode = DirMode
GetattrSaysFile ==
    LET g == Getattr(secretsTree, fsCall.path) IN g.ret = 0 /\ g.mode = FileMode

C35_CallbacksAgreeOnKind ==
    /\ fsCall.op = "Opendir" => (fsCall.ret = 0 <=> GetattrSaysDirectory)
    /\ fsCall.op = "Open" => (fsCall.ret = 0 <=> GetattrSaysFile)
    /\ fsCall.op = "Readdir" =>
           (fsCall.ret = 0 <=> Opendir(secretsTree, fsCall.path).ret = 0)
    /\ fsCall.op = "Getattr" =>
           /\ (fsCall.ret = 0 /\ fsCall.mode = DirMode) <=>
                  Opendir(secretsTree, fsCall.path).ret = 0
           /\ (fsCall.ret = 0 /\ fsCall.mode = FileMode) <=>
                  Open(secretsTree, fsCall.path).ret = 0
    /\ (fsCall.op = "Open" /\ fsCall.path \in {"/", "/secrets"}) =>
           fsCall.ret = -2 /\ GetattrSaysDirectory

\* Open has returned ENOENT on the directory "/secrets"
C35_Witness ==
    /\ fsCall.op = "Open"
    /\ fsCall.path = "/secrets"
    /\ fsCall.ret = -2
    /\ GetattrSaysDirectory

\* Readdir has refused a path that names a leaf, as Opendir does, and Open
\* accepts it
C35_WitnessLeaf ==
    /\ fsCall.op = "Readdir"
    /\ fsCall.path = "/secrets/a.yaml"
    /\ fsCall.ret = -20
    /\ Opendir(secretsTree, fsCall.path).ret = -20
    /\ Open(secretsTree, fsCall.path).ret = 0
    /\ GetattrSaysFile

(***************************************************************************)
(* The filesystem under a host that runs Reads on two threads beside the   *)
(* sweep goroutine, with fair scheduling.  A goroutine that can take a     *)
(* step takes one.  A goroutine in Lock gets the mutex if it is free again *)
(* and again: sync.Mutex hands the lock to a waiter that has been passed   *)
(* over (its starvation mode), and sync.RWMutex holds new readers back     *)
(* once a writer has announced itself.  The threads read one path under    *)
(* /secrets/ and one outside it.                                           *)
(***************************************************************************)
ContendPaths == {"/secrets/a", "/other"}

\* the steps of the Read of worker t that need no access to be granted
ReadRuns(t) ==
    \/ \E ofst \in Offsets, size \in BufSizes : Lookup(t, ofst, size)
    \/ \E outcome \in ExternalOutcomes : DecryptReturn(t, 1, outcome)
    \/ PutLockGranted(t)
    \/ \E ofst \in Offsets, size \in BufSizes : Put(t, ofst, size)
    \/ ReadReturn(t)

ContendNext ==
    \/ \E t \in Workers, path \in ContendPaths : ReadCall(t, path)
    \/ \E t \in Workers : ReadRuns(t)
    \/ \E t \in Workers : PutLock(t)
    \/ SweepStep
    \/ Tick

ContendFairSpec ==
    /\ Init
    /\ [][ContendNext]_vars
    /\ \A t \in Workers : WF_vars(ReadRuns(t)) /\ SF_vars(PutLock(t))
    /\ WF_vars(SweepTick \/ SweepLockGranted \/ SweepPass)
    /\ SF_vars(SweepLock)
    /\ WF_vars(Tick)

(***************************************************************************)
(* C36.  No deadlock on the cache mutex.  A Read that has returned, on a   *)
(* hit, a miss, a decrypt error or not found, holds no access; a Read or   *)
(* the sweep that calls RLock or Lock holds none at that moment; when no   *)
(* Read and no removal pass is in progress the mutex is free.  So every    *)
(* Read and every sweep pass that waits for the mutex gets it.             *)
(***************************************************************************)
\* worker t is in a call of RLock or Lock that has not returned
WaitsForMutex(t) == reads[t].pc \in {"RLock", "Lock", "LockWait"}
SweepWaitsForMutex == sweepPc \in {"Lock", "LockWait"}

\* worker t is not inside the mutex and not on the way in
Outside(t) == ~HoldsMutex(t) /\ t \notin mu.rwait

MutexFree == mu.w = None /\ mu.readers = {} /\ mu.rwait = {}

MutexDiscipline ==
    /\ \A t \in Workers :
           /\ reads[t].pc \in {"idle", "done", "DecryptKey", "Lock"} => Outside(t)
           /\ reads[t].pc = "RLock" => ~HoldsMutex(t)
           /\ reads[t].pc = "LockWait" => t \notin mu.readers
    /\ sweepPc \in {"ticker", "Lock"} => mu.w # Sweeper
    /\ ((\A t \in Workers : reads[t].pc \in {"idle", "done", "DecryptKey", "Lock"})
            /\ sweepPc \in {"ticker", "Lock"}) => MutexFree

C36_WitnessReader ==
    \E t \in Workers : reads[t].pc = "RLock" /\ sweepPc = "pass"

(***************************************************************************)
(* C37.  Every entry of the cache table has a key that starts with         *)
(* "/secrets/", a value that is the plaintext some successful decrypt call *)
(* returns for the key path derived from that key, and a timestamp not     *)
(* later than now.  An entry is created or replaced only by the put of a   *)
(* Read whose decrypt call has succeeded: never after a failed call, never *)
(* by another operation.                                                   *)
(***************************************************************************)
\* the plaintexts a successful decrypt call can return for the path
PlaintextsOf(path) ==
    {DecryptKey(ver, parseSopsKeyPath(path), "ok").secret :
        ver \in {v \in Versions :
                    DecryptKey(v, parseSopsKeyPath(path), "ok").err = None}}

\* this step is the put of a Read of path p whose decrypt call has succeeded
PutAfterDecrypt(p) ==
    \E t \in Workers :
        /\ InPut(t) /\ Completes(t)
        /\ reads[t].path = p
        /\ reads[t].calls = 1 /\ reads[t].err = None /\ ~reads[t].hit
        /\ secretsCache'[p] = [value |-> reads[t].secret, timestamp |-> now]
        /\ fsCall' = fsCall

C37_EntriesComeFromDecrypts ==
    [][/\ \A p \in DOMAIN secretsCache' :
              /\ HasPrefix(p, "/secrets/")
              /\ secretsCache'[p].value \in PlaintextsOf(p)
              /\ secretsCache'[p].timestamp <= now'
              /\ (p \notin DOMAIN secretsCache \/ secretsCache'[p] # secretsCache[p])
                     => PutAfterDecrypt(p)
       /\ \A t \in Workers :
              (DecryptEnds(t) /\ reads'[t].err # None) =>
                  /\ reads'[t].pc = "done" /\ reads'[t].ret = -5
                  /\ secretsCache' = secretsCache]_vars

\* a Read whose decrypt call failed has returned and has left no entry, while
\* the table holds the entry of an earlier Read and the callbacks on that
\* file have run
C37_Witness ==
    /\ reads[Solo].pc = "done"
    /\ reads[Solo].err # None
    /\ reads[Solo].calls = 1
    /\ reads[Solo].path \notin DOMAIN secretsCache
    /\ "/secrets/a.yaml" \in DOMAIN secretsCache
    /\ secretsCache["/secrets/a.yaml"].timestamp < now

(***************************************************************************)
(* C38.  Readdir passes "." and ".." to fill before it looks at the path,  *)
(* so both are emitted on every call, those that return ENOENT (-2) or     *)
(* ENOTDIR (-20) included.  It drops what fill returns: every child is     *)
(* passed to fill, also after fill has reported the buffer full.           *)
(***************************************************************************)
\* the names Readdir has to list for the path of the call at hand
ChildrenToList ==
    IF fsCall.path = "/" THEN {<<"secrets", DirMode>>}
    ELSE IF fsCall.path = "/secrets" THEN Listing(secretsTree)
    ELSE UNION {Listing(n) : n \in Resolved(secretsTree, fsCall)}

C38_ReaddirFillsRegardless ==
    fsCall.op = "Readdir" =>
        /\ FillDots \subseteq fsCall.filled
        /\ fsCall.ret \in {0, -2, -20}
        /\ fsCall.ret # 0 => fsCall.filled = FillDots
        /\ fsCall.ret = 0 => fsCall.filled = FillDots \cup ChildrenToList
        /\ fsCall.full <=> Cardinality(fsCall.filled) > fsCall.cap

\* Readdir of "/secrets" has passed both children to a fill callback that had
\* room for one entry and had reported its buffer full from ".." on
C38_Witness ==
    /\ fsCall.op = "Readdir"
    /\ fsCall.path = "/secrets"
    /\ fsCall.cap = 1 /\ fsCall.full
    /\ fsCall.ret = 0
    /\ {<<"a", FileMode>>, <<"db", DirMode>>} \subseteq fsCall.filled

\* Readdir has emitted "." and ".." and has returned ENOENT
C38_WitnessENOENT ==
    /\ fsCall.op = "Readdir"
    /\ fsCall.ret = -2
    /\ fsCall.filled = FillDots

\* Readdir has emitted "." and ".." and has returned ENOTDIR
C38_WitnessENOTDIR ==
    /\ fsCall.op = "Readdir"
    /\ fsCall.ret = -20
    /\ fsCall.filled = FillDots

=============================================================================
